---- MODULE Spec2Model ----
(***************************************************************************)
(* E-commerce backend: the session-keyed cart (cart.controller.ts) and the *)
(* order workflow (order controller, src/unnamed/part_003) over the        *)
(* relational store described by prisma/schema.prisma.                     *)
(*                                                                         *)
(* Every handler is an async function: each `await prisma...` is one store *)
(* round trip, and other requests may run between two awaits.  One action  *)
(* of the model is one such round trip together with the synchronous code  *)
(* around it (validation before the first await, the response after the    *)
(* last one).  Money is held in whole cents (Decimal(10,2) columns, and    *)
(* Prisma.Decimal arithmetic in the order controller is exact).            *)
(***************************************************************************)
EXTENDS Integers, FiniteSets, Sequences, TLC

\* ------------------------------------------------------------------ bounds

\* Number of requests served in one behaviour when requests do not overlap.
MaxRequests == 3

\* Number of requests served in one behaviour when two clients overlap.
MaxOverlapping == 3

\* ------------------------------------------------------------------ inputs

Null == "NULL"

Clients == {"c1", "c2"}

\* Opaque session identifiers (both pass the cart routes' length check and
\* orderSchema; the second one is a lowercase UUID).
Sessions == {"sess-00001", "c0ffee00-0000-4000-8000-00000000beef"}

\* The characters of a session identifier.
SessionChars(s) ==
  IF s = "sess-00001"
  THEN <<"s", "e", "s", "s", "-", "0", "0", "0", "0", "1">>
  ELSE <<"c", "0", "f", "f", "e", "e", "0", "0", "-", "0", "0", "0", "0", "-", "4", "0", "0", "0", "-", "8", "0", "0", "0", "-", "0", "0", "0", "0", "0", "0", "0", "0", "b", "e", "e", "f">>

Products == {"A"}
Packages == {"B"}

\* The category and the colour of product A.
Categories == {"K"}
Colors == {"L"}

\* req.body of PUT /api/product/:id: price {} is "omitted", as is a
\* categoryId or colorId of Null; sku says whether the body has a sku.  "M"
\* and "N" are the ids of the category and the colour a request may create.
UpdateProductBodies ==
  { [price |-> {1000}, categoryId |-> Null, colorId |-> Null, sku |-> FALSE],
    [price |-> {2550}, categoryId |-> Null, colorId |-> Null, sku |-> FALSE],
    [price |-> {-1},   categoryId |-> Null, colorId |-> Null, sku |-> FALSE],
    [price |-> {},     categoryId |-> "M",  colorId |-> Null, sku |-> FALSE],
    [price |-> {},     categoryId |-> Null, colorId |-> "N",  sku |-> FALSE],
    [price |-> {},     categoryId |-> Null, colorId |-> Null, sku |-> TRUE] }

\* Catalog prices, in cents: 10.00 and 25.50.
Prices == {1000, 2550}

\* req.body of POST /:sessionId/items; quantity {} is "omitted".
AddBodies ==
  { [productId |-> "A",  packageId |-> Null, quantity |-> {}],
    [productId |-> "A",  packageId |-> Null, quantity |-> {2}],
    [productId |-> "A",  packageId |-> Null, quantity |-> {0}],
    [productId |-> Null, packageId |-> "B",  quantity |-> {1}],
    [productId |-> "A",  packageId |-> "B",  quantity |-> {1}],
    [productId |-> Null, packageId |-> Null, quantity |-> {1}] }

\* req.body.quantity of PUT /:sessionId/items/:itemId; {} is "omitted".
UpdateQuantities == {{-1}, {0}, {3}, {}}

\* req.body of POST /api/order (without the sessionId).
OrderBodies ==
  { [name |-> "Ann", phone |-> "555123", address |-> "1 Main St"],
    [name |-> "",    phone |-> "123",    address |-> "1 Main St"] }

\* req.body.status of PATCH /:id/status.
StatusInputs == {"PENDING", "DELIVERED", "BOGUS"}

\* ------------------------------------------------------------------- state

VARIABLES
  product,    \* table products:   records [id, price, categoryId, colorId]
  package,    \* table packages:   records [id, price]
  packageItem, \* table package_items: records [packageId, productId]
  category,   \* table categories: the ids
  color,      \* table colors:     the ids
  cart,       \* table carts:      records [id, sessionId]
  cartItem,   \* table cart_items: records [id, cartId, productId, packageId, quantity]
  order,      \* table Order:      records [id, sessionId, name, phone, address, total, status, createdAt]
  orderItem,  \* table OrderItem:  records [id, orderId, productId, packageId, quantity, price, subtotal]
  cuid,       \* number of ids handed out by @default(cuid()); ids are never reused
  req,        \* per client: the request it is serving, its locals and its response
  budget,     \* number of requests that may still be budget
  history     \* auxiliary: the catalogs there have been, pairs <<product, package>>

catalog == <<product, package, packageItem, category, color, history>>
carts   == <<cart, cartItem>>
orders  == <<order, orderItem>>
store   == <<product, package, packageItem, category, color, history, cart, cartItem, order, orderItem, cuid>>
vars    == <<product, package, packageItem, category, color, history, cart, cartItem, order, orderItem, cuid, req, budget>>

\* ------------------------------------------------------------ store reads

OrderStatus == {"PENDING", "CONFIRMED", "PROCESSING", "SHIPPED", "DELIVERED", "CANCELLED"}

\* prisma.cart.findUnique({ where: { sessionId } }): sessionId is @unique.
CartBySession(s) == {c \in cart : c.sessionId = s}

ItemsOfCart(cartId) == {i \in cartItem : i.cartId = cartId}

\* Mutant of FindFirstItem: the cart is matched against the wrong column.
FindFirstItem_WrongColumn(cartId, productId, packageId) ==
  {i \in cartItem : /\ i.id = cartId
                    /\ i.productId = productId
                    /\ i.packageId = packageId}

\* The rows prisma.cartItem.findFirst({ where: { cartId, productId, packageId } })
\* may return (it has no orderBy, so any matching row can come first).
FindFirstItem(cartId, productId, packageId) ==
  {i \in cartItem : /\ i.cartId = cartId
                    /\ i.productId = productId
                    /\ i.packageId = packageId}

\* CREATE UNIQUE INDEX ... ON cart_items(cartId, productId, packageId): a
\* PostgreSQL unique index treats NULLs as distinct, so a row conflicts with
\* another only when all three columns are non-null and equal.
UniqueIndexHit(cartId, productId, packageId) ==
  /\ productId # Null
  /\ packageId # Null
  /\ \E i \in cartItem : /\ i.cartId = cartId
                         /\ i.productId = productId
                         /\ i.packageId = packageId

\* Foreign keys of a product / package reference (NULL references nothing).
RefsExist(productId, packageId) ==
  /\ productId # Null => \E p \in product : p.id = productId
  /\ packageId # Null => \E p \in package : p.id = packageId

\* include: { product: true, package: true } followed by the controller's
\*   if (item.product) unitPrice = item.product.price
\*   else if (item.package) unitPrice = item.package.price        (else 0)
UnitPrice(item) ==
  LET prod == {p \in product : p.id = item.productId}
      pack == {p \in package : p.id = item.packageId}
  IN IF prod # {} THEN (CHOOSE p \in prod : TRUE).price
     ELSE IF pack # {} THEN (CHOOSE p \in pack : TRUE).price
     ELSE 0

\* validateSessionId of the cart routes.
ValidateSessionId(s) == s # Null /\ Len(s) >= 10

\* ----------------------------------------------------------------- requests

NoRequest ==
  [op |-> "none", pc |-> "idle", status |-> 0, error |-> Null,
   sessionId |-> Null, productId |-> Null, packageId |-> Null, quantity |-> {},
   id |-> 0, categoryId |-> Null, colorId |-> Null, name |-> "", phone |-> "", address |-> "", newStatus |-> Null,
   price |-> 0, issues |-> {},
   cart |-> {}, items |-> {}, existingItem |-> {}, order |-> {},
   summary |-> {}, orders |-> <<>>,
   rows |-> {}, products |-> {}, packages |-> {}, read |-> {}]

\* res.status(st).json(...); err is the Prisma error code that was caught.
Respond(r, st, err) == [r EXCEPT !.pc = "done", !.status = st, !.error = err]

CanStart(c) == req[c].pc \in {"idle", "done"} /\ budget > 0

At(c, op, pc) == req[c].op = op /\ req[c].pc = pc

Init ==
  /\ product = {[id |-> "A", price |-> 1000, categoryId |-> "K", colorId |-> "L"]}
  /\ package = {[id |-> "B", price |-> 2550]}
  /\ packageItem = {[packageId |-> "B", productId |-> "A"]}
  /\ category = Categories
  /\ color = Colors
  /\ history = {<<product, package>>}
  /\ cart = {}
  /\ cartItem = {}
  /\ order = {}
  /\ orderItem = {}
  /\ cuid = 0
  /\ req = [c \in Clients |-> NoRequest]
  /\ budget = MaxRequests

\* --------------------------------------------------------- getOrCreateCart

GetCartFind(c) ==
  /\ CanStart(c)
  /\ \E s \in Sessions :
       LET r == [NoRequest EXCEPT !.op = "getOrCreateCart", !.sessionId = s,
                                  !.cart = CartBySession(s)]
       IN req' = [req EXCEPT ![c] =
            IF ~ValidateSessionId(s) THEN Respond(r, 400, Null)
            ELSE IF r.cart = {} THEN [r EXCEPT !.pc = "create"]
            ELSE Respond([r EXCEPT !.items =
                   UNION {ItemsOfCart(k.id) : k \in r.cart}], 200, Null)]
  /\ budget' = budget - 1
  /\ UNCHANGED store

GetCartCreate(c) ==
  /\ At(c, "getOrCreateCart", "create")
  /\ LET r == req[c] IN
       IF CartBySession(r.sessionId) # {}
       THEN \* unique constraint on carts.sessionId: P2002, caught, 500
            /\ req' = [req EXCEPT ![c] = Respond(r, 500, "P2002")]
            /\ UNCHANGED store
       ELSE /\ cart' = cart \cup {[id |-> cuid + 1, sessionId |-> r.sessionId]}
            /\ cuid' = cuid + 1
            /\ req' = [req EXCEPT ![c] =
                 Respond([r EXCEPT !.cart = {[id |-> cuid + 1, sessionId |-> r.sessionId]}],
                         200, Null)]
            /\ UNCHANGED <<catalog, cartItem, orders>>
  /\ UNCHANGED budget

\* ----------------------------------------------------------- addItemToCart

\* const { productId, packageId, quantity = 1 } = req.body
DefaultQuantity(q) == IF q = {} THEN 1 ELSE CHOOSE x \in q : TRUE

\* Mutant of AddFindCart: a body with both references is let through.
AddFindCart_BothAllowed(c) ==
  /\ CanStart(c)
  /\ \E s \in Sessions, b \in AddBodies :
       LET r == [NoRequest EXCEPT !.op = "addItemToCart", !.sessionId = s,
                                  !.productId = b.productId, !.packageId = b.packageId,
                                  !.quantity = {DefaultQuantity(b.quantity)},
                                  !.cart = CartBySession(s)]
       IN req' = [req EXCEPT ![c] =
            IF ~ValidateSessionId(s) THEN Respond(r, 400, Null)
            ELSE IF b.productId = Null /\ b.packageId = Null THEN Respond(r, 400, Null)
            ELSE IF r.cart = {} THEN [r EXCEPT !.pc = "createCart"]
            ELSE [r EXCEPT !.pc = "findItem"]]
  /\ budget' = budget - 1
  /\ UNCHANGED store

\* The checks before the first await (session id, then "either productId or
\* packageId", then "not both"; the quantity is not checked), then
\* prisma.cart.findUnique({ where: { sessionId } }).
AddFindCart(c) ==
  /\ CanStart(c)
  /\ \E s \in Sessions, b \in AddBodies :
       LET r == [NoRequest EXCEPT !.op = "addItemToCart", !.sessionId = s,
                                  !.productId = b.productId, !.packageId = b.packageId,
                                  !.quantity = {DefaultQuantity(b.quantity)},
                                  !.cart = CartBySession(s)]
       IN req' = [req EXCEPT ![c] =
            IF ~ValidateSessionId(s) THEN Respond(r, 400, Null)
            ELSE IF b.productId = Null /\ b.packageId = Null THEN Respond(r, 400, Null)
            ELSE IF b.productId # Null /\ b.packageId # Null THEN Respond(r, 400, Null)
            ELSE IF r.cart = {} THEN [r EXCEPT !.pc = "createCart"]
            ELSE [r EXCEPT !.pc = "findItem"]]
  /\ budget' = budget - 1
  /\ UNCHANGED store

AddCreateCart(c) ==
  /\ At(c, "addItemToCart", "createCart")
  /\ LET r == req[c] IN
       IF CartBySession(r.sessionId) # {}
       THEN /\ req' = [req EXCEPT ![c] = Respond(r, 500, "P2002")]
            /\ UNCHANGED store
       ELSE /\ cart' = cart \cup {[id |-> cuid + 1, sessionId |-> r.sessionId]}
            /\ cuid' = cuid + 1
            /\ req' = [req EXCEPT ![c] =
                 [r EXCEPT !.pc = "findItem",
                           !.cart = {[id |-> cuid + 1, sessionId |-> r.sessionId]}]]
            /\ UNCHANGED <<catalog, cartItem, orders>>
  /\ UNCHANGED budget

AddFindItem(c) ==
  /\ At(c, "addItemToCart", "findItem")
  /\ LET r == req[c]
         k == CHOOSE k \in r.cart : TRUE
         found == FindFirstItem(k.id, r.productId, r.packageId)
     IN IF found = {}
        THEN req' = [req EXCEPT ![c] = [r EXCEPT !.pc = "create"]]
        ELSE \E e \in found :
               req' = [req EXCEPT ![c] = [r EXCEPT !.pc = "update", !.existingItem = {e}]]
  /\ UNCHANGED <<store, budget>>

\* prisma.cartItem.update({ where: { id: existingItem.id },
\*                          data: { quantity: existingItem.quantity + quantity } })
AddUpdate(c) ==
  /\ At(c, "addItemToCart", "update")
  /\ LET r == req[c]
         e == CHOOSE e \in r.existingItem : TRUE
         q == CHOOSE q \in r.quantity : TRUE
     IN IF \E i \in cartItem : i.id = e.id
        THEN /\ cartItem' = {IF i.id = e.id THEN [i EXCEPT !.quantity = e.quantity + q]
                                            ELSE i : i \in cartItem}
             /\ req' = [req EXCEPT ![c] = Respond(r, 201, Null)]
        ELSE /\ req' = [req EXCEPT ![c] = Respond(r, 500, "P2025")]
             /\ UNCHANGED cartItem
  /\ UNCHANGED <<catalog, cart, orders, cuid, budget>>

\* prisma.cartItem.create({ data: { cartId: cart.id, productId, packageId, quantity } })
AddCreate(c) ==
  /\ At(c, "addItemToCart", "create")
  /\ LET r == req[c]
         k == CHOOSE k \in r.cart : TRUE
         q == CHOOSE q \in r.quantity : TRUE
     IN IF ~(\E x \in cart : x.id = k.id) \/ ~RefsExist(r.productId, r.packageId)
        THEN /\ req' = [req EXCEPT ![c] = Respond(r, 500, "P2003")]
             /\ UNCHANGED <<cartItem, cuid>>
        ELSE IF UniqueIndexHit(k.id, r.productId, r.packageId)
        THEN /\ req' = [req EXCEPT ![c] = Respond(r, 500, "P2002")]
             /\ UNCHANGED <<cartItem, cuid>>
        ELSE /\ cartItem' = cartItem \cup
                  {[id |-> cuid + 1, cartId |-> k.id, productId |-> r.productId,
                    packageId |-> r.packageId, quantity |-> q]}
             /\ cuid' = cuid + 1
             /\ req' = [req EXCEPT ![c] = Respond(r, 201, Null)]
  /\ UNCHANGED <<catalog, cart, orders, budget>>

\* ------------------------------------- updateCartItem / removeItemFromCart

\* :itemId of a request: the id of some row of cart_items, or an id no row has.
ItemIdInputs == {i.id : i \in cartItem} \cup {0}

\* Mutant of OwnedItem: the line is looked up by id in any cart.
OwnedItem_AnyCart(s, itemId) == {i \in cartItem : i.id = itemId}

\* prisma.cart.findUnique({ where: { sessionId },
\*                          include: { items: { where: { id: itemId } } } })
OwnedItem(s, itemId) ==
  {i \in cartItem : i.id = itemId /\ \E k \in CartBySession(s) : i.cartId = k.id}

UpdFind(c) ==
  /\ CanStart(c)
  /\ \E s \in Sessions, itemId \in ItemIdInputs, q \in UpdateQuantities :
       LET r == [NoRequest EXCEPT !.op = "updateCartItem", !.sessionId = s,
                                  !.id = itemId, !.quantity = q,
                                  !.cart = CartBySession(s),
                                  !.items = OwnedItem(s, itemId)]
       IN req' = [req EXCEPT ![c] =
            IF ~ValidateSessionId(s) THEN Respond(r, 400, Null)
            ELSE IF \E x \in q : x < 0
                 THEN Respond([r EXCEPT !.cart = {}, !.items = {}], 400, Null)
            ELSE IF r.cart = {} \/ r.items = {} THEN Respond(r, 404, Null)
            ELSE IF q = {0} THEN [r EXCEPT !.pc = "delete"]
            ELSE [r EXCEPT !.pc = "update"]]
  /\ budget' = budget - 1
  /\ UNCHANGED store

\* Mutant of UpdDelete: quantity 0 is written to the line instead of deleting it.
UpdDelete_SetsZero(c) ==
  /\ At(c, "updateCartItem", "delete")
  /\ LET r == req[c] IN
       IF \E i \in cartItem : i.id = r.id
       THEN /\ cartItem' = {IF i.id = r.id THEN [i EXCEPT !.quantity = 0] ELSE i
                            : i \in cartItem}
            /\ req' = [req EXCEPT ![c] = Respond(r, 200, Null)]
       ELSE /\ req' = [req EXCEPT ![c] = Respond(r, 500, "P2025")]
            /\ UNCHANGED cartItem
  /\ UNCHANGED <<catalog, cart, orders, cuid, budget>>

\* prisma.cartItem.delete({ where: { id: itemId } })
UpdDelete(c) ==
  /\ At(c, "updateCartItem", "delete")
  /\ LET r == req[c] IN
       IF \E i \in cartItem : i.id = r.id
       THEN /\ cartItem' = {i \in cartItem : i.id # r.id}
            /\ req' = [req EXCEPT ![c] = Respond(r, 200, Null)]
       ELSE /\ req' = [req EXCEPT ![c] = Respond(r, 500, "P2025")]
            /\ UNCHANGED cartItem
  /\ UNCHANGED <<catalog, cart, orders, cuid, budget>>

\* prisma.cartItem.update({ where: { id: itemId }, data: { quantity } }); a
\* quantity that is undefined leaves the column as it is.
UpdWrite(c) ==
  /\ At(c, "updateCartItem", "update")
  /\ LET r == req[c]
     IN IF \E i \in cartItem : i.id = r.id
        THEN /\ cartItem' = {IF i.id = r.id /\ r.quantity # {}
                             THEN [i EXCEPT !.quantity = CHOOSE q \in r.quantity : TRUE]
                             ELSE i : i \in cartItem}
             /\ req' = [req EXCEPT ![c] = Respond(r, 200, Null)]
        ELSE /\ req' = [req EXCEPT ![c] = Respond(r, 500, "P2025")]
             /\ UNCHANGED cartItem
  /\ UNCHANGED <<catalog, cart, orders, cuid, budget>>

RemFind(c) ==
  /\ CanStart(c)
  /\ \E s \in Sessions, itemId \in ItemIdInputs :
       LET r == [NoRequest EXCEPT !.op = "removeItemFromCart", !.sessionId = s,
                                  !.id = itemId,
                                  !.cart = CartBySession(s),
                                  !.items = OwnedItem(s, itemId)]
       IN req' = [req EXCEPT ![c] =
            IF ~ValidateSessionId(s) THEN Respond(r, 400, Null)
            ELSE IF r.cart = {} \/ r.items = {} THEN Respond(r, 404, Null)
            ELSE [r EXCEPT !.pc = "delete"]]
  /\ budget' = budget - 1
  /\ UNCHANGED store

RemDelete(c) ==
  /\ At(c, "removeItemFromCart", "delete")
  /\ LET r == req[c] IN
       IF \E i \in cartItem : i.id = r.id
       THEN /\ cartItem' = {i \in cartItem : i.id # r.id}
            /\ req' = [req EXCEPT ![c] = Respond(r, 200, Null)]
       ELSE /\ req' = [req EXCEPT ![c] = Respond(r, 500, "P2025")]
            /\ UNCHANGED cartItem
  /\ UNCHANGED <<catalog, cart, orders, cuid, budget>>

\* ---------------------------------------------------------------- clearCart

\* Mutant of ClearFind: a session without a cart is acknowledged too.
ClearFind_AckWithoutCart(c) ==
  /\ CanStart(c)
  /\ \E s \in Sessions :
       LET r == [NoRequest EXCEPT !.op = "clearCart", !.sessionId = s,
                                  !.cart = CartBySession(s)]
       IN req' = [req EXCEPT ![c] =
            IF ~ValidateSessionId(s) THEN Respond(r, 400, Null)
            ELSE IF r.cart = {} THEN Respond(r, 200, Null)
            ELSE [r EXCEPT !.pc = "deleteMany"]]
  /\ budget' = budget - 1
  /\ UNCHANGED store

\* prisma.cart.findUnique({ where: { sessionId } }); if (!cart) 404 'Cart not found'
ClearFind(c) ==
  /\ CanStart(c)
  /\ \E s \in Sessions :
       LET r == [NoRequest EXCEPT !.op = "clearCart", !.sessionId = s,
                                  !.cart = CartBySession(s)]
       IN req' = [req EXCEPT ![c] =
            IF ~ValidateSessionId(s) THEN Respond(r, 400, Null)
            ELSE IF r.cart = {} THEN Respond(r, 404, Null)
            ELSE [r EXCEPT !.pc = "deleteMany"]]
  /\ budget' = budget - 1
  /\ UNCHANGED store

\* Mutant of ClearDelete: the cart row is deleted with its lines.
ClearDelete_DropsCart(c) ==
  /\ At(c, "clearCart", "deleteMany")
  /\ LET r == req[c]
         k == CHOOSE k \in r.cart : TRUE
     IN /\ cartItem' = {i \in cartItem : i.cartId # k.id}
        /\ cart' = {x \in cart : x.id # k.id}
        /\ req' = [req EXCEPT ![c] = Respond(r, 200, Null)]
  /\ UNCHANGED <<catalog, orders, cuid, budget>>

\* prisma.cartItem.deleteMany({ where: { cartId: cart.id } })
ClearDelete(c) ==
  /\ At(c, "clearCart", "deleteMany")
  /\ LET r == req[c]
         k == CHOOSE k \in r.cart : TRUE
     IN /\ cartItem' = {i \in cartItem : i.cartId # k.id}
        /\ req' = [req EXCEPT ![c] = Respond(r, 200, Null)]
  /\ UNCHANGED <<catalog, cart, orders, cuid, budget>>

\* ------------------------------------------------- numbers of the cart summary

\* getCartSummary computes with JavaScript numbers (IEEE 754 doubles):
\* price.toNumber() * item.quantity, summed with +=, then
\* parseFloat(totalPrice.toFixed(2)).  A double is held here as a mantissa of
\* 53 bits and a binary exponent, value m * 2^e; the mantissa is a natural
\* number written in limbs of 15 bits, least significant first (<<>> is 0).
\* Quantities and prices in the model are not negative.
Base == 32768

MantissaBits == 53

RECURSIVE Pow2(_)
Pow2(k) == IF k = 0 THEN 1 ELSE 2 * Pow2(k - 1)

RECURSIVE Trim(_)
Trim(a) ==
  IF a # <<>> /\ a[Len(a)] = 0 THEN Trim(SubSeq(a, 1, Len(a) - 1)) ELSE a

RECURSIVE FromInt(_)
FromInt(n) == IF n = 0 THEN <<>> ELSE <<n % Base>> \o FromInt(n \div Base)

RECURSIVE AddCarry(_, _, _)
AddCarry(a, b, carry) ==
  IF a = <<>> /\ b = <<>> THEN FromInt(carry)
  ELSE LET x == IF a = <<>> THEN 0 ELSE Head(a)
           y == IF b = <<>> THEN 0 ELSE Head(b)
           s == x + y + carry
       IN <<s % Base>> \o AddCarry(IF a = <<>> THEN a ELSE Tail(a),
                                   IF b = <<>> THEN b ELSE Tail(b), s \div Base)

BigAdd(a, b) == AddCarry(a, b, 0)

RECURSIVE MulCarry(_, _, _)
MulCarry(a, k, carry) ==
  IF a = <<>> THEN FromInt(carry)
  ELSE LET p == Head(a) * k + carry
       IN <<p % Base>> \o MulCarry(Tail(a), k, p \div Base)

\* a * k for 0 <= k <= Base
MulSmall(a, k) == IF k = 0 THEN <<>> ELSE MulCarry(a, k, 0)

ShiftLimbs(a, n) == IF a = <<>> THEN a ELSE [i \in 1..n |-> 0] \o a

RECURSIVE BigMul(_, _)
BigMul(a, b) ==
  IF b = <<>> THEN <<>>
  ELSE BigAdd(MulSmall(a, Head(b)), ShiftLimbs(BigMul(a, Tail(b)), 1))

\* quotient and remainder of a by d, for 0 < d <= Base
RECURSIVE DivSmall(_, _)
DivSmall(a, d) ==
  IF a = <<>> THEN [q |-> <<>>, r |-> 0]
  ELSE LET hi == DivSmall(Tail(a), d)
           x == hi.r * Base + Head(a)
       IN [q |-> Trim(<<x \div d>> \o hi.q), r |-> x % d]

ShiftLeft(a, k) == ShiftLimbs(MulSmall(a, Pow2(k % 15)), k \div 15)

\* floor(a / 2^k), and whether a bit that was shifted out was set
ShiftRight(a, k) ==
  LET n == IF k \div 15 < Len(a) THEN k \div 15 ELSE Len(a)
      d == DivSmall(SubSeq(a, n + 1, Len(a)), Pow2(k % 15))
  IN [q |-> d.q, sticky |-> d.r # 0 \/ \E i \in 1..n : a[i] # 0]

RECURSIVE SmallBitLen(_)
SmallBitLen(x) == IF x = 0 THEN 0 ELSE 1 + SmallBitLen(x \div 2)

BitLen(a) == IF a = <<>> THEN 0 ELSE 15 * (Len(a) - 1) + SmallBitLen(a[Len(a)])

IsOdd(a) == a # <<>> /\ a[1] % 2 = 1

Zero == [m |-> <<>>, e |-> 0]

\* The double nearest to (n + f) * 2^e, ties to even, where 0 <= f < 1 and
\* sticky says whether f > 0 (n has more than MantissaBits bits whenever f > 0).
RoundToDouble(n, e, sticky) ==
  LET len == BitLen(n)
      k == len - MantissaBits
      t == ShiftRight(n, k - 1)
      q == ShiftRight(t.q, 1).q
      up == IsOdd(t.q) /\ (t.sticky \/ sticky \/ IsOdd(q))
      m == IF up THEN BigAdd(q, <<1>>) ELSE q
  IN IF n = <<>> THEN Zero
     ELSE IF k <= 0 THEN [m |-> ShiftLeft(n, -k), e |-> e + k]
     ELSE IF BitLen(m) > MantissaBits THEN [m |-> ShiftRight(m, 1).q, e |-> e + k + 1]
     ELSE [m |-> m, e |-> e + k]

\* Decimal.toNumber() and parseFloat of a two-decimal string: the double
\* nearest to cents / 100 (cents as a natural number in limbs).
DecimalToNumber(cents) ==
  LET d == DivSmall(ShiftLeft(cents, 70), 100)
  IN RoundToDouble(d.q, -70, d.r # 0)

\* x * quantity, for a quantity that is an integer >= 0
Times(x, quantity) == RoundToDouble(BigMul(x.m, FromInt(quantity)), x.e, FALSE)

\* x + y
Plus(x, y) ==
  LET e == IF x.e < y.e THEN x.e ELSE y.e
  IN IF x = Zero THEN y
     ELSE IF y = Zero THEN x
     ELSE RoundToDouble(BigAdd(ShiftLeft(x.m, x.e - e), ShiftLeft(y.m, y.e - e)), e, FALSE)

\* Number.prototype.toFixed(2): the integer n for which n / 100 - x is closest
\* to zero, the larger n of two; the result is returned as that count of cents.
ToFixed2(x) ==
  LET n == MulSmall(x.m, 100)
  IN IF x.e >= 0 THEN ShiftLeft(n, x.e)
     ELSE ShiftRight(BigAdd(ShiftRight(n, -x.e - 1).q, <<1>>), 1).q

\* item.product.price.toNumber() * item.quantity, or item.package's; a line
\* with neither adds nothing.
LineAmount(item) == Times(DecimalToNumber(FromInt(UnitPrice(item))), item.quantity)

\* The values totalPrice can have after cart.items.forEach: the query has no
\* orderBy, so the lines may be added up in any order.
RECURSIVE TotalPrices(_)
TotalPrices(items) ==
  IF items = {} THEN {Zero}
  ELSE UNION {{Plus(t, LineAmount(i)) : t \in TotalPrices(items \ {i})} : i \in items}

\* totalItems += item.quantity
RECURSIVE TotalItems(_)
TotalItems(items) ==
  IF items = {} THEN 0
  ELSE LET i == CHOOSE i \in items : TRUE
       IN i.quantity + TotalItems(items \ {i})

\* A summary that makes the cart it did not find, as getOrCreateCart does.
GetCartSummary_CreatesCart(c) ==
  /\ CanStart(c)
  /\ \E s \in Sessions :
       LET found == CartBySession(s)
           items == UNION {ItemsOfCart(k.id) : k \in found}
           r == [NoRequest EXCEPT !.op = "getCartSummary", !.sessionId = s]
       IN IF found = {}
          THEN /\ req' = [req EXCEPT ![c] =
                    Respond([r EXCEPT !.summary =
                               {[totalItems |-> 0, totalPrice |-> Zero, itemCount |-> 0]}],
                            200, Null)]
               /\ cart' = cart \cup {[id |-> cuid + 1, sessionId |-> s]}
               /\ cuid' = cuid + 1
          ELSE /\ \E total \in TotalPrices(items) :
                    req' = [req EXCEPT ![c] =
                      Respond([r EXCEPT !.cart = found, !.items = items, !.summary =
                                 {[totalItems |-> TotalItems(items),
                                   totalPrice |-> DecimalToNumber(ToFixed2(total)),
                                   itemCount |-> Cardinality(items)]}],
                              200, Null)]
               /\ UNCHANGED <<cart, cuid>>
  /\ budget' = budget - 1
  /\ UNCHANGED <<catalog, cartItem, orders>>

\* prisma.cart.findUnique({ where: { sessionId }, include: { items: { include:
\* { product, package } } } }), the zeroed answer when there is no cart, the
\* totals otherwise.  totalPrice is the number parseFloat(totalPrice.toFixed(2)).
GetCartSummary(c) ==
  /\ CanStart(c)
  /\ \E s \in Sessions :
       LET found == CartBySession(s)
           items == UNION {ItemsOfCart(k.id) : k \in found}
           r == [NoRequest EXCEPT !.op = "getCartSummary", !.sessionId = s]
       IN IF ~ValidateSessionId(s)
          THEN req' = [req EXCEPT ![c] = Respond(r, 400, Null)]
          ELSE IF found = {}
          THEN req' = [req EXCEPT ![c] =
                 Respond([r EXCEPT !.summary =
                            {[totalItems |-> 0, totalPrice |-> Zero, itemCount |-> 0]}],
                         200, Null)]
          ELSE \E total \in TotalPrices(items) :
                 req' = [req EXCEPT ![c] =
                   Respond([r EXCEPT !.cart = found, !.items = items, !.summary =
                              {[totalItems |-> TotalItems(items),
                                totalPrice |-> DecimalToNumber(ToFixed2(total)),
                                itemCount |-> Cardinality(items)]}],
                           200, Null)]
  /\ budget' = budget - 1
  /\ UNCHANGED store

CartStep(c) ==
  \/ GetCartFind(c) \/ GetCartCreate(c)
  \/ AddFindCart(c) \/ AddCreateCart(c) \/ AddFindItem(c) \/ AddUpdate(c) \/ AddCreate(c)
  \/ UpdFind(c) \/ UpdDelete(c) \/ UpdWrite(c)
  \/ RemFind(c) \/ RemDelete(c)
  \/ ClearFind(c) \/ ClearDelete(c)
  \/ GetCartSummary(c)

\* -------------------------------------------------------------- createOrder

\* orderSchema.safeParse(req.body): the fields that fail.
OrderSchemaIssues(sessionId, name, phone, address) ==
  {f \in {"sessionId", "name", "phone", "address"} :
     \/ f = "sessionId" /\ Len(sessionId) < 1
     \/ f = "name" /\ Len(name) < 1
     \/ f = "phone" /\ Len(phone) < 6
     \/ f = "address" /\ Len(address) < 1}

\* cart.items with product and package included: each line with the unit
\* price the controller takes from it.
ResolvedItems(cartId) ==
  {[id |-> i.id, productId |-> i.productId, packageId |-> i.packageId,
    quantity |-> i.quantity, price |-> UnitPrice(i)] : i \in ItemsOfCart(cartId)}

\* Mutant of CartIsEmpty: only a missing cart is refused.
CartIsEmpty_MissingOnly(found, items) == found = {}

\* if (!cart || cart.items.length === 0)
CartIsEmpty(found, items) == found = {} \/ items = {}

\* Mutant of ItemSubtotal: the quantity is left out.
ItemSubtotal_NoQuantity(item) == item.price

\* itemSubtotal = unitPrice.mul(itemQuantity)
ItemSubtotal(item) == item.price * item.quantity

\* totalOrderPrice: the sum of the subtotals of the lines read.
RECURSIVE TotalOrderPrice(_)
TotalOrderPrice(items) ==
  IF items = {} THEN 0
  ELSE LET i == CHOOSE i \in items : TRUE
       IN ItemSubtotal(i) + TotalOrderPrice(items \ {i})

\* Position of a line among the lines read (the order of items: { create: [...] }).
Rank(item, items) == Cardinality({j \in items : j.id <= item.id})

\* The rows of the nested create, for an order with id orderId.
OrderItemsData(items, orderId) ==
  {[id |-> orderId + Rank(i, items), orderId |-> orderId,
    productId |-> i.productId, packageId |-> i.packageId,
    quantity |-> i.quantity, price |-> i.price, subtotal |-> ItemSubtotal(i)]
   : i \in items}

CreateOrderFind(c) ==
  /\ CanStart(c)
  /\ \E s \in Sessions, b \in OrderBodies :
       LET issues == OrderSchemaIssues(s, b.name, b.phone, b.address)
           found == CartBySession(s)
           r == [NoRequest EXCEPT !.op = "createOrder", !.sessionId = s,
                                  !.name = b.name, !.phone = b.phone,
                                  !.address = b.address]
           items == UNION {ResolvedItems(k.id) : k \in found}
       IN req' = [req EXCEPT ![c] =
            IF issues # {} THEN Respond([r EXCEPT !.issues = issues], 400, Null)
            ELSE IF CartIsEmpty(found, items)
                 THEN Respond([r EXCEPT !.cart = found], 400, Null)
            ELSE [r EXCEPT !.pc = "create", !.cart = found, !.items = items]]
  /\ budget' = budget - 1
  /\ UNCHANGED store

\* Order.createdAt, @default(now()): the wall clock in milliseconds at the
\* insert.  Against the orders there are it can be later than all of them,
\* equal to the latest (two inserts within a millisecond) or earlier (the
\* clock was set back).  Only the relative position is kept.
Now ==
  IF order = {} THEN {1}
  ELSE LET latest == CHOOSE t \in {o.createdAt : o \in order} :
                       \A o \in order : o.createdAt <= t
       IN {latest - 1, latest, latest + 1}

\* prisma.order.create({ data: { ..., status: PENDING, items: { create: orderItemsData } } })
\* One nested write: the order and its items are inserted together or not at all.
CreateOrderCreate(c) ==
  /\ At(c, "createOrder", "create")
  /\ \E fault \in BOOLEAN, now \in Now :
       LET r == req[c] IN
       IF fault
       THEN /\ req' = [req EXCEPT ![c] = Respond(r, 500, "P1017")]
            /\ UNCHANGED <<orders, cuid>>
       ELSE IF \E i \in r.items : ~RefsExist(i.productId, i.packageId)
       THEN /\ req' = [req EXCEPT ![c] = Respond(r, 500, "P2003")]
            /\ UNCHANGED <<orders, cuid>>
       ELSE /\ order' = order \cup
                 {[id |-> cuid + 1, sessionId |-> r.sessionId, name |-> r.name,
                   phone |-> r.phone, address |-> r.address,
                   total |-> TotalOrderPrice(r.items), status |-> "PENDING",
                   createdAt |-> now]}
            /\ orderItem' = orderItem \cup OrderItemsData(r.items, cuid + 1)
            /\ cuid' = cuid + 1 + Cardinality(r.items)
            /\ req' = [req EXCEPT ![c] = [r EXCEPT !.pc = "deleteItems", !.order = {cuid + 1}]]
  /\ UNCHANGED <<catalog, carts, budget>>

\* Mutant of CreateOrderDeleteItems: deleteMany without its where.
CreateOrderDeleteItems_AllLines(c) ==
  /\ At(c, "createOrder", "deleteItems")
  /\ \E fault \in BOOLEAN :
       LET r == req[c]
       IN IF fault
          THEN /\ req' = [req EXCEPT ![c] = Respond(r, 500, "P1017")]
               /\ UNCHANGED cartItem
          ELSE /\ cartItem' = {}
               /\ req' = [req EXCEPT ![c] = [r EXCEPT !.pc = "deleteCart"]]
  /\ UNCHANGED <<catalog, cart, orders, cuid, budget>>

\* prisma.cartItem.deleteMany({ where: { cartId: cart.id } })
CreateOrderDeleteItems(c) ==
  /\ At(c, "createOrder", "deleteItems")
  /\ \E fault \in BOOLEAN :
       LET r == req[c]
           k == CHOOSE k \in r.cart : TRUE
       IN IF fault
          THEN /\ req' = [req EXCEPT ![c] = Respond(r, 500, "P1017")]
               /\ UNCHANGED cartItem
          ELSE /\ cartItem' = {i \in cartItem : i.cartId # k.id}
               /\ req' = [req EXCEPT ![c] = [r EXCEPT !.pc = "deleteCart"]]
  /\ UNCHANGED <<catalog, cart, orders, cuid, budget>>

\* Mutant of CreateOrderDeleteCart: the order is acknowledged and the cart row kept.
CreateOrderDeleteCart_KeepCart(c) ==
  /\ At(c, "createOrder", "deleteCart")
  /\ req' = [req EXCEPT ![c] = Respond(req[c], 201, Null)]
  /\ UNCHANGED <<store, budget>>

\* prisma.cart.delete({ where: { id: cart.id } }); cart_items.cartId is
\* ON DELETE CASCADE.  res.status(201).json(order)
CreateOrderDeleteCart(c) ==
  /\ At(c, "createOrder", "deleteCart")
  /\ \E fault \in BOOLEAN :
       LET r == req[c]
           k == CHOOSE k \in r.cart : TRUE
       IN IF fault
          THEN /\ req' = [req EXCEPT ![c] = Respond(r, 500, "P1017")]
               /\ UNCHANGED carts
          ELSE IF ~(\E x \in cart : x.id = k.id)
          THEN /\ req' = [req EXCEPT ![c] = Respond(r, 404, "P2025")]
               /\ UNCHANGED carts
          ELSE /\ cart' = {x \in cart : x.id # k.id}
               /\ cartItem' = {i \in cartItem : i.cartId # k.id}
               /\ req' = [req EXCEPT ![c] = Respond(r, 201, Null)]
  /\ UNCHANGED <<catalog, orders, cuid, budget>>

\* ------------------------------------------- updateOrderStatus / deleteOrder

\* :id of a request: the id of some order, or a well-formed id no order has.
OrderIdInputs == {o.id : o \in order} \cup {0}

\* Mutant of ValidStatus: any string is accepted as a status.
ValidStatus_AnyString(st) == st # Null

\* updateOrderStatusSchema: z.nativeEnum(OrderStatus)
ValidStatus(st) == st \in OrderStatus

\* Mutant of UpdateOrderStatus: a delivered order cannot go back to another status.
UpdateOrderStatus_NoWayBack(c) ==
  /\ CanStart(c)
  /\ \E id \in OrderIdInputs, st \in StatusInputs :
       LET r == [NoRequest EXCEPT !.op = "updateOrderStatus", !.id = id, !.newStatus = st]
       IN IF ~ValidStatus(st)
          THEN /\ req' = [req EXCEPT ![c] = Respond([r EXCEPT !.issues = {"status"}], 400, Null)]
               /\ UNCHANGED order
          ELSE IF ~(\E o \in order : o.id = id)
          THEN /\ req' = [req EXCEPT ![c] = Respond(r, 404, "P2025")]
               /\ UNCHANGED order
          ELSE IF \E o \in order : o.id = id /\ o.status = "DELIVERED" /\ st # "DELIVERED"
          THEN /\ req' = [req EXCEPT ![c] = Respond(r, 409, Null)]
               /\ UNCHANGED order
          ELSE /\ order' = {IF o.id = id THEN [o EXCEPT !.status = st] ELSE o : o \in order}
               /\ req' = [req EXCEPT ![c] = Respond(r, 200, Null)]
  /\ budget' = budget - 1
  /\ UNCHANGED <<catalog, carts, orderItem, cuid>>

\* getOrderByIdSchema and updateOrderStatusSchema, then prisma.order.update
\* ({ where: { id }, data: { status } }); P2025 (no such order) is answered 404.
UpdateOrderStatus(c) ==
  /\ CanStart(c)
  /\ \E id \in OrderIdInputs, st \in StatusInputs :
       LET r == [NoRequest EXCEPT !.op = "updateOrderStatus", !.id = id, !.newStatus = st]
       IN IF ~ValidStatus(st)
          THEN /\ req' = [req EXCEPT ![c] = Respond([r EXCEPT !.issues = {"status"}], 400, Null)]
               /\ UNCHANGED order
          ELSE IF ~(\E o \in order : o.id = id)
          THEN /\ req' = [req EXCEPT ![c] = Respond(r, 404, "P2025")]
               /\ UNCHANGED order
          ELSE /\ order' = {IF o.id = id THEN [o EXCEPT !.status = st] ELSE o : o \in order}
               /\ req' = [req EXCEPT ![c] = Respond(r, 200, Null)]
  /\ budget' = budget - 1
  /\ UNCHANGED <<catalog, carts, orderItem, cuid>>

DeleteOrderFind(c) ==
  /\ CanStart(c)
  /\ \E id \in OrderIdInputs :
       LET r == [NoRequest EXCEPT !.op = "deleteOrder", !.id = id]
       IN req' = [req EXCEPT ![c] =
            IF ~(\E o \in order : o.id = id) THEN Respond(r, 404, Null)
            ELSE [r EXCEPT !.pc = "delete"]]
  /\ budget' = budget - 1
  /\ UNCHANGED store

\* Mutant of DeleteOrderDelete: the order row goes, whatever refers to it.
DeleteOrderDelete_LeavesLines(c) ==
  /\ At(c, "deleteOrder", "delete")
  /\ LET r == req[c] IN
       IF ~(\E o \in order : o.id = r.id)
       THEN /\ req' = [req EXCEPT ![c] = Respond(r, 404, "P2025")]
            /\ UNCHANGED order
       ELSE /\ order' = {o \in order : o.id # r.id}
            /\ req' = [req EXCEPT ![c] = Respond(r, 204, Null)]
  /\ UNCHANGED <<catalog, carts, orderItem, cuid, budget>>

\* prisma.order.delete({ where: { id } }); OrderItem.orderId references the
\* order ON DELETE RESTRICT, so an order that has items cannot be deleted.
DeleteOrderDelete(c) ==
  /\ At(c, "deleteOrder", "delete")
  /\ LET r == req[c] IN
       IF ~(\E o \in order : o.id = r.id)
       THEN /\ req' = [req EXCEPT ![c] = Respond(r, 404, "P2025")]
            /\ UNCHANGED order
       ELSE IF \E i \in orderItem : i.orderId = r.id
       THEN /\ req' = [req EXCEPT ![c] = Respond(r, 500, "P2003")]
            /\ UNCHANGED order
       ELSE /\ order' = {o \in order : o.id # r.id}
            /\ req' = [req EXCEPT ![c] = Respond(r, 204, Null)]
  /\ UNCHANGED <<catalog, carts, orderItem, cuid, budget>>

\* ----------------------------------------------------- getOrdersBySessionId

HexDigits ==
  {"0", "1", "2", "3", "4", "5", "6", "7", "8", "9", "a", "b", "c", "d", "e", "f"}

\* getOrdersBySessionIdSchema:
\* /^[0-9a-f]{8}-[0-9a-f]{4}-[0-9a-f]{4}-[0-9a-f]{4}-[0-9a-f]{12}$/
MatchesUuid(chars) ==
  /\ Len(chars) = 36
  /\ \A i \in 1..36 :
       IF i \in {9, 14, 19, 24} THEN chars[i] = "-" ELSE chars[i] \in HexDigits

CreatedAt(o) == o.createdAt

\* orderBy: { createdAt: "desc" }: the ids of the orders, latest createdAt
\* first; the sort has no second key, so orders of equal createdAt come in
\* either sequence.
RECURSIVE NewestFirst(_)
NewestFirst(found) ==
  IF found = {} THEN {<<>>}
  ELSE UNION {{<<o.id>> \o rest : rest \in NewestFirst(found \ {o})} :
              o \in {o \in found : \A x \in found : CreatedAt(x) <= CreatedAt(o)}}

\* prisma.order.findMany({ where: { sessionId }, orderBy: { createdAt: "desc" } })
GetOrdersBySessionId(c) ==
  /\ CanStart(c)
  /\ \E s \in Sessions :
       LET r == [NoRequest EXCEPT !.op = "getOrdersBySessionId", !.sessionId = s]
       IN IF ~MatchesUuid(SessionChars(s))
          THEN req' = [req EXCEPT ![c] = Respond([r EXCEPT !.issues = {"sessionId"}], 400, Null)]
          ELSE \E found \in NewestFirst({o \in order : o.sessionId = s}) :
                 req' = [req EXCEPT ![c] = Respond([r EXCEPT !.orders = found], 200, Null)]
  /\ budget' = budget - 1
  /\ UNCHANGED store

OrderStep(c) ==
  \/ CreateOrderFind(c) \/ CreateOrderCreate(c)
  \/ CreateOrderDeleteItems(c) \/ CreateOrderDeleteCart(c)
  \/ UpdateOrderStatus(c)
  \/ DeleteOrderFind(c) \/ DeleteOrderDelete(c)
  \/ GetOrdersBySessionId(c)

\* ------------------------------------------------------------------ catalog

\* The tables that an action of the catalog leaves alone.
kinds == <<category, color>>

\* updateProductSchema.safeParse({ ...req.body, id }): every field but the id
\* may be left out; price is z.number().min(0).
UpdateProductIssues(body) == {f \in {"price"} : \E x \in body.price : x < 0}

\* The products row after data: { ...data, price: ... }: a field the body
\* leaves out keeps its value.
UpdatedProduct(p, body) ==
  [p EXCEPT !.price = IF body.price = {} THEN @ ELSE CHOOSE x \in body.price : TRUE,
            !.categoryId = IF body.categoryId = Null THEN @ ELSE body.categoryId,
            !.colorId = IF body.colorId = Null THEN @ ELSE body.colorId]

\* The request record of an updateProduct.
UpdateProductRequest(id, body) ==
  [NoRequest EXCEPT !.op = "updateProduct", !.productId = id,
                    !.price = IF body.price = {} THEN 0 ELSE CHOOSE x \in body.price : TRUE,
                    !.categoryId = body.categoryId, !.colorId = body.colorId]

\* Mutant of UpdateProduct: order lines follow the product's live price.
UpdateProduct_LivePrice(c) ==
  /\ CanStart(c)
  /\ \E id \in Products, body \in UpdateProductBodies, skuTaken \in BOOLEAN :
       LET r == UpdateProductRequest(id, body)
       IN IF UpdateProductIssues(body) # {}
          THEN /\ req' = [req EXCEPT ![c] =
                    Respond([r EXCEPT !.issues = UpdateProductIssues(body)], 400, Null)]
               /\ UNCHANGED <<product, orderItem>>
          ELSE IF ~(\E p \in product : p.id = id)
          THEN /\ req' = [req EXCEPT ![c] = Respond(r, 404, "P2025")]
               /\ UNCHANGED <<product, orderItem>>
          ELSE IF body.sku /\ skuTaken /\ (\E p \in product : p.id # id)
          THEN /\ req' = [req EXCEPT ![c] = Respond(r, 409, "P2002")]
               /\ UNCHANGED <<product, orderItem>>
          ELSE IF \/ body.categoryId # Null /\ body.categoryId \notin category
                  \/ body.colorId # Null /\ body.colorId \notin color
          THEN /\ req' = [req EXCEPT ![c] = Respond(r, 400, "P2003")]
               /\ UNCHANGED <<product, orderItem>>
          ELSE /\ product' = {IF p.id = id THEN UpdatedProduct(p, body) ELSE p
                              : p \in product}
               /\ orderItem' = {IF i.productId = id /\ body.price # {}
                                THEN [i EXCEPT !.price = r.price,
                                               !.subtotal = r.price * i.quantity]
                                ELSE i : i \in orderItem}
               /\ req' = [req EXCEPT ![c] = Respond(r, 200, Null)]
  /\ budget' = budget - 1
  /\ UNCHANGED <<package, packageItem, kinds, carts, order, cuid>>
  /\ history' = history \cup {<<product', package'>>}

\* prisma.product.update({ where: { id: data.id }, data: { ...data, price:
\* data.price !== undefined ? new Prisma.Decimal(data.price) : undefined, ... } }):
\* every field of the body is written to the products row.  No such product is
\* P2025 (404), a sku another product has is P2002 (409), a categoryId or
\* colorId that names no row is P2003 (400).
UpdateProduct(c) ==
  /\ CanStart(c)
  /\ \E id \in Products, body \in UpdateProductBodies, skuTaken \in BOOLEAN :
       LET r == UpdateProductRequest(id, body)
       IN IF UpdateProductIssues(body) # {}
          THEN /\ req' = [req EXCEPT ![c] =
                    Respond([r EXCEPT !.issues = UpdateProductIssues(body)], 400, Null)]
               /\ UNCHANGED product
          ELSE IF ~(\E p \in product : p.id = id)
          THEN /\ req' = [req EXCEPT ![c] = Respond(r, 404, "P2025")]
               /\ UNCHANGED product
          ELSE IF body.sku /\ skuTaken /\ (\E p \in product : p.id # id)
          THEN /\ req' = [req EXCEPT ![c] = Respond(r, 409, "P2002")]
               /\ UNCHANGED product
          ELSE IF \/ body.categoryId # Null /\ body.categoryId \notin category
                  \/ body.colorId # Null /\ body.colorId \notin color
          THEN /\ req' = [req EXCEPT ![c] = Respond(r, 400, "P2003")]
               /\ UNCHANGED product
          ELSE /\ product' = {IF p.id = id THEN UpdatedProduct(p, body) ELSE p
                              : p \in product}
               /\ req' = [req EXCEPT ![c] = Respond(r, 200, Null)]
  /\ budget' = budget - 1
  /\ UNCHANGED <<package, packageItem, kinds, carts, orders, cuid>>
  /\ history' = history \cup {<<product', package'>>}

\* The rows left when the products with the ids gone are deleted:
\* cart_items.productId and package_items.productId are ON DELETE CASCADE,
\* OrderItem.productId is ON DELETE SET NULL.
WithoutProducts(rows, gone) == {p \in rows : p.id \notin gone}

LinesWithoutProducts(gone) == {i \in cartItem : i.productId \notin gone}

PackageItemsWithoutProducts(gone) == {i \in packageItem : i.productId \notin gone}

OrderItemsWithoutProducts(gone) ==
  {IF i.productId \in gone THEN [i EXCEPT !.productId = Null] ELSE i : i \in orderItem}

\* prisma.product.delete({ where: { id } })
DeleteProduct(c) ==
  /\ CanStart(c)
  /\ \E id \in Products :
       LET r == [NoRequest EXCEPT !.op = "deleteProduct", !.productId = id]
       IN IF \E p \in product : p.id = id
          THEN /\ product' = WithoutProducts(product, {id})
               /\ cartItem' = LinesWithoutProducts({id})
               /\ packageItem' = PackageItemsWithoutProducts({id})
               /\ orderItem' = OrderItemsWithoutProducts({id})
               /\ req' = [req EXCEPT ![c] = Respond(r, 204, Null)]
          ELSE /\ req' = [req EXCEPT ![c] = Respond(r, 404, "P2025")]
               /\ UNCHANGED <<product, cartItem, packageItem, orderItem>>
  /\ budget' = budget - 1
  /\ UNCHANGED <<package, kinds, cart, order, cuid>>
  /\ history' = history \cup {<<product', package'>>}

\* updatePackage, first await: prisma.packageItem.deleteMany({ where: {
\* packageId: id } }).  The body names one product in its items.
UpdatePackageDeleteItems(c) ==
  /\ CanStart(c)
  /\ \E id \in Packages, price \in Prices, item \in Products :
       req' = [req EXCEPT ![c] =
         [NoRequest EXCEPT !.op = "updatePackage", !.pc = "update", !.packageId = id,
                           !.price = price, !.productId = item]]
  /\ packageItem' = {i \in packageItem : i.packageId # req'[c].packageId}
  /\ budget' = budget - 1
  /\ UNCHANGED <<product, package, history, kinds, carts, orders, cuid>>

\* updatePackage, second await: prisma.package.update({ where: { id }, data: {
\* price: new Prisma.Decimal(price), ..., items: { create: [{ product: {
\* connect: { id } } }] } } }).  One nested write, failing whole: a package or
\* a product that is not there is P2025, answered 404; an item the package
\* has already (another request has created it since the deleteMany) breaks
\* @@unique([packageId, productId]), P2002, answered 500.
UpdatePackage(c) ==
  /\ At(c, "updatePackage", "update")
  /\ LET r == req[c]
         item == [packageId |-> r.packageId, productId |-> r.productId]
     IN IF ~((\E p \in package : p.id = r.packageId)
              /\ (\E p \in product : p.id = r.productId))
        THEN /\ req' = [req EXCEPT ![c] = Respond(r, 404, "P2025")]
             /\ UNCHANGED <<package, packageItem>>
        ELSE IF item \in packageItem
        THEN /\ req' = [req EXCEPT ![c] = Respond(r, 500, "P2002")]
             /\ UNCHANGED <<package, packageItem>>
        ELSE /\ package' = {IF p.id = r.packageId THEN [p EXCEPT !.price = r.price] ELSE p
                            : p \in package}
             /\ packageItem' = packageItem \cup {item}
             /\ req' = [req EXCEPT ![c] = Respond(r, 200, Null)]
  /\ UNCHANGED <<product, kinds, carts, orders, cuid, budget>>
  /\ history' = history \cup {<<product', package'>>}

\* prisma.package.delete({ where: { id } }): cart_items.packageId and
\* package_items.packageId are ON DELETE CASCADE, OrderItem.packageId is ON
\* DELETE SET NULL.
DeletePackage(c) ==
  /\ CanStart(c)
  /\ \E id \in Packages :
       LET r == [NoRequest EXCEPT !.op = "deletePackage", !.packageId = id]
       IN IF \E p \in package : p.id = id
          THEN /\ package' = {p \in package : p.id # id}
               /\ packageItem' = {i \in packageItem : i.packageId # id}
               /\ cartItem' = {i \in cartItem : i.packageId # id}
               /\ orderItem' = {IF i.packageId = id THEN [i EXCEPT !.packageId = Null]
                                ELSE i : i \in orderItem}
               /\ req' = [req EXCEPT ![c] = Respond(r, 200, Null)]
          ELSE /\ req' = [req EXCEPT ![c] = Respond(r, 404, "P2025")]
               /\ UNCHANGED <<package, packageItem, cartItem, orderItem>>
  /\ budget' = budget - 1
  /\ UNCHANGED <<product, kinds, cart, order, cuid>>
  /\ history' = history \cup {<<product', package'>>}

\* Ids that a row created by a request can get (@default(cuid())).
NewProducts == {"C"}

NewPackages == {"D"}

NewCategories == {"M"}

NewColors == {"N"}

\* The ids that a row of the catalog has or has had: none is handed out
\* again.  (No request here deletes a category or colour it has created.)
UsedIds ==
  UNION {{p.id : p \in h[1] \cup h[2]} : h \in history} \cup category \cup color

\* prisma.product.create({ data: { ...data, price: new Prisma.Decimal(data.price) } });
\* products.sku is @unique (P2002, answered 409); categoryId and colorId are
\* foreign keys (P2003, answered 500).
CreateProduct(c) ==
  /\ CanStart(c)
  /\ \E id \in NewProducts \ UsedIds, price \in Prices, skuTaken \in BOOLEAN,
        categoryId \in Categories \cup NewCategories, colorId \in Colors \cup NewColors :
       LET r == [NoRequest EXCEPT !.op = "createProduct"]
       IN IF skuTaken /\ product # {}
          THEN /\ req' = [req EXCEPT ![c] = Respond(r, 409, "P2002")]
               /\ UNCHANGED product
          ELSE IF categoryId \notin category \/ colorId \notin color
          THEN /\ req' = [req EXCEPT ![c] = Respond(r, 500, "P2003")]
               /\ UNCHANGED product
          ELSE /\ product' = product \cup {[id |-> id, price |-> price,
                                            categoryId |-> categoryId, colorId |-> colorId]}
               /\ req' = [req EXCEPT ![c] = Respond([r EXCEPT !.productId = id], 201, Null)]
  /\ budget' = budget - 1
  /\ UNCHANGED <<package, packageItem, kinds, carts, orders, cuid>>
  /\ history' = history \cup {<<product', package'>>}

\* prisma.package.create({ data: { ..., price: new Prisma.Decimal(price), items:
\* { create: [{ product: { connect: { id } } }] } } }); a product that is not
\* there fails the nested write (P2025, answered 404).
CreatePackage(c) ==
  /\ CanStart(c)
  /\ \E id \in NewPackages \ UsedIds, price \in Prices, item \in Products :
       LET r == [NoRequest EXCEPT !.op = "createPackage"]
       IN IF \E p \in product : p.id = item
          THEN /\ package' = package \cup {[id |-> id, price |-> price]}
               /\ packageItem' = packageItem \cup {[packageId |-> id, productId |-> item]}
               /\ req' = [req EXCEPT ![c] = Respond([r EXCEPT !.packageId = id], 201, Null)]
          ELSE /\ req' = [req EXCEPT ![c] = Respond(r, 404, "P2025")]
               /\ UNCHANGED <<package, packageItem>>
  /\ budget' = budget - 1
  /\ UNCHANGED <<product, kinds, carts, orders, cuid>>
  /\ history' = history \cup {<<product', package'>>}

\* prisma.category.create({ data: result.data }); categories.name and slug
\* are @unique, and every error is answered 500.
CreateCategory(c) ==
  /\ CanStart(c)
  /\ \E id \in NewCategories \ UsedIds, nameTaken \in BOOLEAN :
       LET r == [NoRequest EXCEPT !.op = "createCategory"]
       IN IF nameTaken /\ category # {}
          THEN /\ req' = [req EXCEPT ![c] = Respond(r, 500, "P2002")]
               /\ UNCHANGED category
          ELSE /\ category' = category \cup {id}
               /\ req' = [req EXCEPT ![c] = Respond(r, 201, Null)]
  /\ budget' = budget - 1
  /\ UNCHANGED <<product, package, packageItem, history, color, carts, orders, cuid>>

\* prisma.category.delete({ where: { id } }): products.categoryId is ON DELETE
\* CASCADE; a category that is not there (P2025) is answered 500, as every
\* error is.
DeleteCategory(c) ==
  /\ CanStart(c)
  /\ \E id \in Categories :
       LET r == [NoRequest EXCEPT !.op = "deleteCategory"]
           gone == {p.id : p \in {p \in product : p.categoryId = id}}
       IN IF id \in category
          THEN /\ category' = category \ {id}
               /\ product' = WithoutProducts(product, gone)
               /\ cartItem' = LinesWithoutProducts(gone)
               /\ packageItem' = PackageItemsWithoutProducts(gone)
               /\ orderItem' = OrderItemsWithoutProducts(gone)
               /\ req' = [req EXCEPT ![c] = Respond(r, 204, Null)]
          ELSE /\ req' = [req EXCEPT ![c] = Respond(r, 500, "P2025")]
               /\ UNCHANGED <<category, product, cartItem, packageItem, orderItem>>
  /\ budget' = budget - 1
  /\ UNCHANGED <<package, color, cart, order, cuid>>
  /\ history' = history \cup {<<product', package'>>}

\* prisma.color.create({ data: { name, hexCode } }); colors.name and hexCode
\* are @unique (P2002, answered 409).
CreateColor(c) ==
  /\ CanStart(c)
  /\ \E id \in NewColors \ UsedIds, nameTaken \in BOOLEAN :
       LET r == [NoRequest EXCEPT !.op = "createColor"]
       IN IF nameTaken /\ color # {}
          THEN /\ req' = [req EXCEPT ![c] = Respond(r, 409, "P2002")]
               /\ UNCHANGED color
          ELSE /\ color' = color \cup {id}
               /\ req' = [req EXCEPT ![c] = Respond(r, 201, Null)]
  /\ budget' = budget - 1
  /\ UNCHANGED <<product, package, packageItem, history, category, carts, orders, cuid>>

\* deleteColor, first await: prisma.color.findUnique with the count of the
\* products of the colour (no order line has a colour: createOrder sets
\* none).  A colour in use is deleted only with ?force=true.
DeleteColorFind(c) ==
  /\ CanStart(c)
  /\ \E id \in Colors, force \in BOOLEAN :
       LET r == [NoRequest EXCEPT !.op = "deleteColor", !.colorId = id]
       IN req' = [req EXCEPT ![c] =
            IF id \notin color THEN Respond(r, 404, Null)
            ELSE IF (\E p \in product : p.colorId = id) /\ ~force THEN Respond(r, 400, Null)
            ELSE [r EXCEPT !.pc = "delete"]]
  /\ budget' = budget - 1
  /\ UNCHANGED store

\* deleteColor, second await: prisma.color.delete({ where: { id } });
\* products.colorId is ON DELETE CASCADE, so the products that have the
\* colour now go with it.  A colour that is gone by now (P2025) is answered
\* 500.
DeleteColorDelete(c) ==
  /\ At(c, "deleteColor", "delete")
  /\ LET r == req[c]
         gone == {p.id : p \in {p \in product : p.colorId = r.colorId}}
     IN IF r.colorId \in color
        THEN /\ color' = color \ {r.colorId}
             /\ product' = WithoutProducts(product, gone)
             /\ cartItem' = LinesWithoutProducts(gone)
             /\ packageItem' = PackageItemsWithoutProducts(gone)
             /\ orderItem' = OrderItemsWithoutProducts(gone)
             /\ req' = [req EXCEPT ![c] = Respond(r, 200, Null)]
        ELSE /\ req' = [req EXCEPT ![c] = Respond(r, 500, "P2025")]
             /\ UNCHANGED <<color, product, cartItem, packageItem, orderItem>>
  /\ UNCHANGED <<package, category, cart, order, cuid, budget>>
  /\ history' = history \cup {<<product', package'>>}

CatalogStep(c) ==
  \/ CreateProduct(c) \/ UpdateProduct(c) \/ DeleteProduct(c)
  \/ CreatePackage(c) \/ UpdatePackageDeleteItems(c) \/ UpdatePackage(c)
  \/ DeletePackage(c)
  \/ CreateCategory(c) \/ DeleteCategory(c)
  \/ CreateColor(c) \/ DeleteColorFind(c) \/ DeleteColorDelete(c)

\* ----------------------------------------------------------- specifications

Step(c) == CartStep(c) \/ OrderStep(c) \/ CatalogStep(c)

\* Requests that do not overlap: one client, one request at a time.
Next == \E c \in {"c1"} : Step(c)

Spec == Init /\ [][Next]_vars

\* Two clients whose requests interleave at every await.
OverlapInit ==
  /\ product = {[id |-> "A", price |-> 1000, categoryId |-> "K", colorId |-> "L"]}
  /\ package = {[id |-> "B", price |-> 2550]}
  /\ packageItem = {[packageId |-> "B", productId |-> "A"]}
  /\ category = Categories
  /\ color = Colors
  /\ history = {<<product, package>>}
  /\ cart = {}
  /\ cartItem = {}
  /\ order = {}
  /\ orderItem = {}
  /\ cuid = 0
  /\ req = [c \in Clients |-> NoRequest]
  /\ budget = MaxOverlapping

OverlapNext == \E c \in Clients : Step(c)

OverlapSpec == OverlapInit /\ [][OverlapNext]_vars

\* ------------------------------------ createOrder, the queries of its read

\* prisma.cart.findUnique({ where: { sessionId }, include: { items: { include:
\* { product: true, package: true } } } }) is sent to PostgreSQL as one SELECT
\* per relation (the client is generated without relationJoins): the cart,
\* its items, the products of the items, the packages of the items.  Each
\* SELECT sees the rows committed when it starts, and other requests' writes
\* can be committed between two of them.
CreateOrderReadCart(c) ==
  /\ CanStart(c)
  /\ \E s \in Sessions, b \in OrderBodies :
       LET issues == OrderSchemaIssues(s, b.name, b.phone, b.address)
           found == CartBySession(s)
           r == [NoRequest EXCEPT !.op = "createOrder", !.sessionId = s,
                                  !.name = b.name, !.phone = b.phone,
                                  !.address = b.address]
       IN req' = [req EXCEPT ![c] =
            IF issues # {} THEN Respond([r EXCEPT !.issues = issues], 400, Null)
            ELSE IF found = {} THEN Respond(r, 400, Null)
            ELSE [r EXCEPT !.pc = "readItems", !.cart = found]]
  /\ budget' = budget - 1
  /\ UNCHANGED store

CreateOrderReadItems(c) ==
  /\ At(c, "createOrder", "readItems")
  /\ LET r == req[c]
         rows == UNION {ItemsOfCart(k.id) : k \in r.cart}
     IN req' = [req EXCEPT ![c] =
          IF CartIsEmpty(r.cart, rows) THEN Respond(r, 400, Null)
          ELSE [r EXCEPT !.pc = "readRefs", !.rows = rows]]
  /\ UNCHANGED <<store, budget>>

\* The lines read, each with the unit price the controller takes from the
\* product or package row that was read for it.
ResolvedRows(rows, products, packages) ==
  {[id |-> i.id, productId |-> i.productId, packageId |-> i.packageId,
    quantity |-> i.quantity,
    price |-> LET prod == {p \in products : p.id = i.productId}
                  pack == {p \in packages : p.id = i.packageId}
              IN IF prod # {} THEN (CHOOSE p \in prod : TRUE).price
                 ELSE IF pack # {} THEN (CHOOSE p \in pack : TRUE).price
                 ELSE 0] : i \in rows}

\* After the last of the two relation queries the handler has its cart.
AfterRead(r) ==
  IF r.read = {"product", "package"}
  THEN [r EXCEPT !.pc = "create",
                 !.items = ResolvedRows(r.rows, r.products, r.packages)]
  ELSE r

\* SELECT ... FROM products WHERE id IN (the productIds of the items)
CreateOrderReadProducts(c) ==
  /\ At(c, "createOrder", "readRefs")
  /\ "product" \notin req[c].read
  /\ req' = [req EXCEPT ![c] =
       AfterRead([req[c] EXCEPT
         !.products = {p \in product : \E i \in req[c].rows : i.productId = p.id},
         !.read = @ \cup {"product"}])]
  /\ UNCHANGED <<store, budget>>

\* SELECT ... FROM packages WHERE id IN (the packageIds of the items)
CreateOrderReadPackages(c) ==
  /\ At(c, "createOrder", "readRefs")
  /\ "package" \notin req[c].read
  /\ req' = [req EXCEPT ![c] =
       AfterRead([req[c] EXCEPT
         !.packages = {p \in package : \E i \in req[c].rows : i.packageId = p.id},
         !.read = @ \cup {"package"}])]
  /\ UNCHANGED <<store, budget>>

\* A checkout of a cart with two lines and the catalog's price updates, two
\* clients, interleaved at every query.
ReadRequests == 3

\* The store after two addItemToCart requests of one session were served.
ReadInit ==
  /\ product = {[id |-> "A", price |-> 1000, categoryId |-> "K", colorId |-> "L"]}
  /\ package = {[id |-> "B", price |-> 2550]}
  /\ packageItem = {[packageId |-> "B", productId |-> "A"]}
  /\ category = Categories
  /\ color = Colors
  /\ history = {<<product, package>>}
  /\ cart = {[id |-> 1, sessionId |-> "sess-00001"]}
  /\ cartItem = {[id |-> 2, cartId |-> 1, productId |-> "A", packageId |-> Null,
                  quantity |-> 2],
                 [id |-> 3, cartId |-> 1, productId |-> Null, packageId |-> "B",
                  quantity |-> 1]}
  /\ order = {}
  /\ orderItem = {}
  /\ cuid = 3
  /\ req = [c \in Clients |-> NoRequest]
  /\ budget = ReadRequests

ReadStep(c) ==
  \/ CreateOrderReadCart(c) \/ CreateOrderReadItems(c)
  \/ CreateOrderReadProducts(c) \/ CreateOrderReadPackages(c)
  \/ CreateOrderCreate(c) \/ CreateOrderDeleteItems(c) \/ CreateOrderDeleteCart(c)
  \/ UpdateProduct(c) \/ UpdatePackageDeleteItems(c) \/ UpdatePackage(c)

ReadNext == \E c \in Clients : ReadStep(c)

ReadSpec == ReadInit /\ [][ReadNext]_vars

\* --------------------------------------------- requests after a placed order

\* Requests that do not overlap, served after sess-00001 has added product A
\* to its cart and placed the order.
StatusRequests == 2

StatusInit ==
  /\ product = {[id |-> "A", price |-> 1000, categoryId |-> "K", colorId |-> "L"]}
  /\ package = {[id |-> "B", price |-> 2550]}
  /\ packageItem = {[packageId |-> "B", productId |-> "A"]}
  /\ category = Categories
  /\ color = Colors
  /\ history = {<<product, package>>}
  /\ cart = {}
  /\ cartItem = {}
  /\ order = {[id |-> 3, sessionId |-> "sess-00001", name |-> "Ann", phone |-> "555123",
               address |-> "1 Main St", status |-> "PENDING", total |-> 1000,
               createdAt |-> 1]}
  /\ orderItem = {[id |-> 4, orderId |-> 3, productId |-> "A", packageId |-> Null,
                   quantity |-> 1, price |-> 1000, subtotal |-> 1000]}
  /\ cuid = 4
  /\ req = [c \in Clients |-> NoRequest]
  /\ budget = StatusRequests

StatusNext == \E c \in {"c1"} : Step(c)

StatusSpec == StatusInit /\ [][StatusNext]_vars

\* ------------------------------------------------------------ cleanupOldCarts

\* cleanupOldCarts: prisma.cart.deleteMany({ where: { updatedAt: { lt:
\* thirtyDaysAgo }, items: { none: {} } } }).  Neither the clock nor
\* carts.updatedAt is kept: the carts last updated more than thirty days ago
\* are some of the carts.  The function is exported for a scheduler; no route
\* of the application mounts it, so it is a step of no specification but
\* CleanupSpec.
CleanupOldCarts ==
  /\ \E old \in SUBSET cart :
       cart' = {k \in cart : ~(k \in old /\ \A i \in cartItem : i.cartId # k.id)}
  /\ UNCHANGED <<cartItem, catalog, orders, cuid, req, budget>>

CleanupRequests == 3

CleanupInit ==
  /\ product = {[id |-> "A", price |-> 1000, categoryId |-> "K", colorId |-> "L"]}
  /\ package = {[id |-> "B", price |-> 2550]}
  /\ packageItem = {[packageId |-> "B", productId |-> "A"]}
  /\ category = Categories
  /\ color = Colors
  /\ history = {<<product, package>>}
  /\ cart = {}
  /\ cartItem = {}
  /\ order = {}
  /\ orderItem = {}
  /\ cuid = 0
  /\ req = [c \in Clients |-> NoRequest]
  /\ budget = CleanupRequests

\* Requests that do not overlap, and a scheduler that runs cleanupOldCarts
\* between any two steps of them.
CleanupNext == (\E c \in {"c1"} : Step(c)) \/ CleanupOldCarts

CleanupSpec == CleanupInit /\ [][CleanupNext]_vars

\* ----------------------------------------------------- summaries of large carts

\* Prices in cents that a Decimal(10,2) column holds, and quantities that an
\* Int column holds.
MoneyPrices == {1000, 1999999999, 2147483647}

MoneyQuantities == {1, 1759219, 123456789}

MoneyRequests == 2

\* The store after a product and a package were priced and two addItemToCart
\* requests of one session were served: a cart with a line for each.
MoneyInit ==
  /\ \E pa \in MoneyPrices, pb \in MoneyPrices :
       /\ product = {[id |-> "A", price |-> pa, categoryId |-> "K", colorId |-> "L"]}
       /\ package = {[id |-> "B", price |-> pb]}
       /\ packageItem = {[packageId |-> "B", productId |-> "A"]}
       /\ category = Categories
       /\ color = Colors
  /\ history = {<<product, package>>}
  /\ cart = {[id |-> 1, sessionId |-> "sess-00001"]}
  /\ \E qa \in MoneyQuantities, qb \in MoneyQuantities :
       cartItem = {[id |-> 2, cartId |-> 1, productId |-> "A", packageId |-> Null,
                    quantity |-> qa],
                   [id |-> 3, cartId |-> 1, productId |-> Null, packageId |-> "B",
                    quantity |-> qb]}
  /\ order = {}
  /\ orderItem = {}
  /\ cuid = 3
  /\ req = [c \in Clients |-> NoRequest]
  /\ budget = MoneyRequests

MoneyNext == \E c \in {"c1"} : GetCartSummary(c)

MoneySpec == MoneyInit /\ [][MoneyNext]_vars

\* ------------------------------------------------------------------- claims

Done(c, op) == req[c].op = op /\ req[c].pc = "done"

\* C1: place-order's step 4 is atomic: no reachable state has the created
\* Order while the cart lines it was built from are still in the cart, none
\* has the cart deleted without an Order for it, and no Order is without
\* OrderLines.
C1_AtomicCheckout ==
  /\ \A c \in Clients :
       (req[c].op = "createOrder" /\ \E o \in order : o.id \in req[c].order)
         => ~(\E i \in cartItem : i.id \in {j.id : j \in req[c].items})
  /\ \A c \in Clients :
       (req[c].op = "createOrder" /\ req[c].pc \in {"deleteItems", "deleteCart", "done"}
          /\ req[c].cart # {} /\ req[c].items # {} /\ req[c].cart \cap cart = {})
         => \E o \in order : o.sessionId = req[c].sessionId
  /\ \A o \in order : \E i \in orderItem : i.orderId = o.id

\* C2: when a store write inside place-order fails, the operation reports
\* failure and leaves no new Order or OrderLine, and the Cart with all its
\* CartLines is exactly as before the call.
C2_FailedCheckoutRollsBack ==
  \A c \in Clients :
    (Done(c, "createOrder") /\ req[c].status >= 500)
      => /\ ~(\E o \in order : o.id \in req[c].order)
         /\ ~(\E i \in orderItem : i.orderId \in req[c].order)
         /\ req[c].cart \subseteq cart
         /\ \A k \in req[c].cart :
              {<<i.id, i.quantity>> : i \in {x \in cartItem : x.cartId = k.id}}
                = {<<j.id, j.quantity>> : j \in req[c].items}

\* Both clients have been answered 201 by add-item for product A in one session.
BothAdded ==
  /\ \A c \in Clients : Done(c, "addItemToCart") /\ req[c].status = 201
  /\ req["c1"].sessionId = req["c2"].sessionId
  /\ req["c1"].productId = "A"
  /\ req["c2"].productId = "A"

\* C3: two add-item requests for the same (sessionId, productId) with
\* quantities q1 and q2, whether or not they overlap, end with exactly one
\* line for the product, of quantity q1 + q2 plus the quantity already
\* present: first for a cart that started empty (no other request ran), then
\* for two requests that both found the same line of quantity q0.
C3_ConcurrentAddsMerge ==
  /\ (BothAdded /\ budget = MaxOverlapping - 2)
       => LET lines == {i \in cartItem :
                          /\ i.productId = "A"
                          /\ \E k \in cart : /\ k.id = i.cartId
                                             /\ k.sessionId = req["c1"].sessionId}
          IN /\ Cardinality(lines) = 1
             /\ \A i \in lines :
                  \A q1 \in req["c1"].quantity, q2 \in req["c2"].quantity :
                    i.quantity = q1 + q2
  /\ (BothAdded /\ req["c1"].existingItem # {}
        /\ req["c1"].existingItem = req["c2"].existingItem)
       => \A e \in req["c1"].existingItem :
            \A q1 \in req["c1"].quantity, q2 \in req["c2"].quantity :
              \E i \in cartItem : i.id = e.id /\ i.quantity = e.quantity + q1 + q2

\* At most one line per (cart, product) and per (cart, package).
OneLinePerRef ==
  \A i, j \in cartItem :
    (i.cartId = j.cartId /\ i.productId = j.productId /\ i.packageId = j.packageId)
      => i.id = j.id

\* The step in which add-line writes: a reference already in the cart has the
\* requested quantity added to its line and no line is created; any other
\* reference gets one new line of the requested quantity.
AddWrites(c) ==
  (req[c].op = "addItemToCart" /\ req[c].pc \in {"update", "create"}
     /\ req'[c].pc = "done" /\ req'[c].status = 201)
  => LET r == req[c]
         present == {i \in cartItem : /\ \E k \in r.cart : i.cartId = k.id
                                      /\ i.productId = r.productId
                                      /\ i.packageId = r.packageId}
     IN IF present # {}
        THEN /\ {i.id : i \in cartItem'} = {i.id : i \in cartItem}
             /\ \A i \in cartItem, j \in cartItem' :
                  i.id = j.id =>
                    IF i \in present
                    THEN \A q \in r.quantity : j = [i EXCEPT !.quantity = i.quantity + q]
                    ELSE j = i
        ELSE /\ cartItem \subseteq cartItem'
             /\ Cardinality(cartItem' \ cartItem) = 1
             /\ \A j \in cartItem' \ cartItem :
                  /\ j.productId = r.productId
                  /\ j.packageId = r.packageId
                  /\ \E k \in r.cart : j.cartId = k.id
                  /\ \A q \in r.quantity : j.quantity = q

\* C4: after any sequence of non-overlapping requests each cart holds at most
\* one line per product and per package, and add-line for a reference already
\* in the cart adds the requested quantity to the existing line and creates
\* no new line.
C4_OneLinePerRef ==
  /\ []OneLinePerRef
  /\ [][\A c \in Clients : AddWrites(c)]_vars

\* An add-item of quantity 2 has just raised an existing line of quantity 1 to 3.
C4_Witness ==
  /\ Done("c1", "addItemToCart")
  /\ req["c1"].status = 201
  /\ req["c1"].quantity = {2}
  /\ \E e \in req["c1"].existingItem :
       /\ e.quantity = 1
       /\ \E i \in cartItem : i.id = e.id /\ i.quantity = 3

\* C5: the store rejects every insert of a second CartLine with the same
\* (cartId, productId, packageId), so no two rows share the triple, and
\* add-line answers the rejection of its line insert (P2002 once it holds a
\* cart) by incrementing or with a conflict, never with an internal error.
C5_UniqueLineEnforced ==
  /\ OneLinePerRef
  /\ \A c \in Clients :
       (Done(c, "addItemToCart") /\ req[c].error = "P2002" /\ req[c].cart # {})
         => req[c].status \in {201, 409}

\* C6: place-order with a valid body for a session whose cart does not exist
\* or has no lines answers 400 at once and writes nothing.
C6_EmptyCartRejected ==
  [][\A c \in Clients :
       ( /\ req[c].pc \in {"idle", "done"}
         /\ req'[c] # req[c]
         /\ req'[c].op = "createOrder"
         /\ req'[c].issues = {}
         /\ \A k \in cart : k.sessionId = req'[c].sessionId
                              => ~(\E i \in cartItem : i.cartId = k.id) )
       => /\ req'[c].pc = "done"
          /\ req'[c].status = 400
          /\ UNCHANGED store]_vars

\* place-order was refused for a session whose cart exists and is empty.
C6_Witness ==
  /\ Done("c1", "createOrder")
  /\ req["c1"].status = 400
  /\ req["c1"].issues = {}
  /\ req["c1"].cart # {}
  /\ req["c1"].cart \subseteq cart

RECURSIVE SumOfSubtotals(_)
SumOfSubtotals(rows) ==
  IF rows = {} THEN 0
  ELSE LET x == CHOOSE x \in rows : TRUE
       IN x.subtotal + SumOfSubtotals(rows \ {x})

\* The catalog price of a line's product or package.
CatalogPrice(line) ==
  IF line.productId # Null
  THEN (CHOOSE p \in product : p.id = line.productId).price
  ELSE (CHOOSE p \in package : p.id = line.packageId).price

Snapshots(row, line, orderId) ==
  /\ row.orderId = orderId
  /\ row.productId = line.productId
  /\ row.packageId = line.packageId
  /\ row.quantity = line.quantity
  /\ row.price = CatalogPrice(line)
  /\ row.subtotal = CatalogPrice(line) * line.quantity

\* C7: a successful place-order creates one Order with status PENDING and
\* exactly one OrderLine per CartLine of the session's cart, with the line's
\* reference and quantity, price = the catalog price at checkout and
\* subtotal = price * quantity; Order.total is the sum of the subtotals.
C7_OrderSnapshotsCart ==
  [][\A c \in Clients :
       (req[c].op = "createOrder" /\ req[c].pc = "create" /\ req'[c].pc = "deleteItems")
       => LET lines == {i \in cartItem : \E k \in cart :
                           k.sessionId = req[c].sessionId /\ i.cartId = k.id}
              rows == orderItem' \ orderItem
          IN /\ order \subseteq order'
             /\ orderItem \subseteq orderItem'
             /\ Cardinality(order' \ order) = 1
             /\ \A o \in order' \ order :
                  /\ o.status = "PENDING"
                  /\ o.sessionId = req[c].sessionId
                  /\ o.total = SumOfSubtotals(rows)
                  /\ Cardinality(rows) = Cardinality(lines)
                  /\ \A l \in lines : \E x \in rows : Snapshots(x, l, o.id)
                  /\ \A x \in rows : \E l \in lines : Snapshots(x, l, o.id)]_vars

\* The order of the example: product A at 10.00 x 2 and package B at 25.50 x 1
\* give subtotals 20.00 and 25.50 and the total 45.50.
C7_Witness ==
  /\ req["c1"].op = "createOrder"
  /\ req["c1"].pc = "deleteItems"
  /\ \E o \in order :
       /\ o.id \in req["c1"].order
       /\ o.total = 4550
       /\ o.status = "PENDING"
       /\ {<<i.productId, i.packageId, i.quantity, i.price, i.subtotal>> :
             i \in {x \in orderItem : x.orderId = o.id}}
            = {<<"A", Null, 2, 1000, 2000>>, <<Null, "B", 1, 2550, 2550>>}

\* C8: after place-order succeeds the session's Cart and all its CartLines no
\* longer exist, and the next get-or-create-cart for the session finds no cart
\* and returns a newly created one with zero lines.
C8_CartGoneAfterOrder ==
  [][\A c \in Clients :
       /\ (req[c].op = "createOrder" /\ req[c].pc = "deleteCart" /\ req'[c].status = 201)
            => /\ ~(\E k \in cart' : k.sessionId = req[c].sessionId)
               /\ \A k \in req[c].cart : ~(\E i \in cartItem' : i.cartId = k.id)
       /\ (Done(c, "createOrder") /\ req[c].status = 201
             /\ req'[c].op = "getOrCreateCart"
             /\ req'[c].sessionId = req[c].sessionId)
            => req'[c].pc = "create"
       /\ (req[c].op = "getOrCreateCart" /\ req[c].pc = "create" /\ req'[c].status = 200)
            => /\ req'[c].items = {}
               /\ \E k \in req'[c].cart :
                    /\ k \in cart' \ cart
                    /\ k.sessionId = req[c].sessionId
                    /\ k.id > cuid
                    /\ ~(\E i \in cartItem' : i.cartId = k.id)]_vars

\* get-or-create-cart has returned a cart created after the session's order,
\* with zero lines.
C8_Witness ==
  /\ Done("c1", "getOrCreateCart")
  /\ req["c1"].status = 200
  /\ req["c1"].items = {}
  /\ \E k \in req["c1"].cart, o \in order :
       /\ k \in cart
       /\ o.sessionId = k.sessionId
       /\ k.id > o.id
       /\ ~(\E i \in cartItem : i.cartId = k.id)

\* A step that changes the price of a product or package that stays in the catalog.
PriceChanges ==
  \/ \E p \in product, q \in product' : p.id = q.id /\ p.price # q.price
  \/ \E p \in package, q \in package' : p.id = q.id /\ p.price # q.price

\* C9: snapshot isolation: a change of a catalog price leaves every existing
\* OrderLine's price and subtotal and every placed Order's total unchanged.
C9_SnapshotIsolation ==
  [][PriceChanges =>
       /\ \A o \in order : \E n \in order' : n.id = o.id /\ n.total = o.total
       /\ \A i \in orderItem : \E n \in orderItem' :
            n.id = i.id /\ n.price = i.price /\ n.subtotal = i.subtotal]_vars

\* An update-product answered 200 has changed the price of a product, and an
\* order line of that product keeps the price it was placed at.
C9_Witness ==
  \E i \in orderItem, p \in product :
    /\ Done("c1", "updateProduct")
    /\ req["c1"].status = 200
    /\ req["c1"].productId = p.id
    /\ req["c1"].price = p.price
    /\ i.productId = p.id
    /\ i.price # p.price
    /\ i.subtotal = i.price * i.quantity
    /\ \E o \in order : o.id = i.orderId /\ o.total = i.subtotal

\* C10: an Order is immutable except for its status: while it exists, no
\* operation changes its name, phone, address, sessionId or total, or any of
\* its OrderLines' product/package id, quantity, price or subtotal.
C10_OrderImmutable ==
  [][/\ \A o \in order : \A n \in order' :
          n.id = o.id => [n EXCEPT !.status = o.status] = o
     /\ \A i \in orderItem :
          (\E n \in order' : n.id = i.orderId) => i \in orderItem']_vars

\* A request of client c starts in this step (its first await has run).
Starts(c, op) ==
  /\ req[c].pc \in {"idle", "done"}
  /\ budget' = budget - 1
  /\ req'[c].op = op

\* C11: delete-order on an existing order removes the Order and all of its
\* OrderLines and acknowledges with 204 and no body; on an id no order has it
\* answers 404 and changes nothing.
C11_DeleteOrderRemoves ==
  [][\A c \in {"c1"} :
       /\ (Starts(c, "deleteOrder") /\ ~(\E o \in order : o.id = req'[c].id))
            => /\ req'[c].pc = "done"
               /\ req'[c].status = 404
               /\ UNCHANGED store
       /\ (Starts(c, "deleteOrder") /\ \E o \in order : o.id = req'[c].id)
            => req'[c].pc = "delete"
       /\ (At(c, "deleteOrder", "delete") /\ \E o \in order : o.id = req[c].id)
            => /\ req'[c].pc = "done"
               /\ req'[c].status = 204
               /\ order' = {o \in order : o.id # req[c].id}
               /\ orderItem' = {i \in orderItem : i.orderId # req[c].id}
               /\ UNCHANGED <<catalog, carts>>]_vars

\* C12: update-status with a value outside the six values of OrderStatus is
\* refused with a validation error (400) and changes nothing, and every
\* order's status is one of the six values in every reachable state.
C12_StatusInEnum ==
  /\ [](\A o \in order : o.status \in OrderStatus)
  /\ [][\A c \in {"c1"} :
          (Starts(c, "updateOrderStatus") /\ req'[c].newStatus \notin OrderStatus)
            => /\ req'[c].pc = "done"
               /\ req'[c].status = 400
               /\ req'[c].issues = {"status"}
               /\ UNCHANGED store]_vars

\* update-status to BOGUS was refused for an order that exists and is still PENDING.
C12_Witness ==
  /\ Done("c1", "updateOrderStatus")
  /\ req["c1"].status = 400
  /\ req["c1"].newStatus = "BOGUS"
  /\ \E o \in order : o.id = req["c1"].id /\ o.status = "PENDING"

\* C13: update-status on an existing order with any value of the enum sets the
\* order's status to that value whatever the current status is and changes
\* nothing else; on an id no order has it answers 404 and creates or changes
\* no order.
C13_AnyTransition ==
  [][\A c \in {"c1"} :
       (Starts(c, "updateOrderStatus") /\ req'[c].newStatus \in OrderStatus)
         => /\ req'[c].pc = "done"
            /\ IF \E o \in order : o.id = req'[c].id
               THEN /\ req'[c].status = 200
                    /\ order' = {IF o.id = req'[c].id
                                 THEN [o EXCEPT !.status = req'[c].newStatus]
                                 ELSE o : o \in order}
               ELSE /\ req'[c].status = 404
                    /\ order' = order
            /\ UNCHANGED <<catalog, carts, orderItem, cuid>>]_vars

\* An order placed as PENDING has been set to DELIVERED by the first
\* update-status sent for it.
C13_Witness ==
  /\ Done("c1", "updateOrderStatus")
  /\ req["c1"].status = 200
  /\ req["c1"].newStatus = "DELIVERED"
  /\ budget = StatusRequests - 1
  /\ \E o \in order : o.id = req["c1"].id /\ o.status = "DELIVERED"

\* Every cart line references exactly one of a product and a package.
ExactlyOneRef ==
  \A i \in cartItem : (i.productId = Null) # (i.packageId = Null)

\* C14: add-line refuses with a validation error (400), writing nothing, every
\* request that carries both a productId and a packageId or neither, and in
\* every reachable state every CartLine references exactly one of Product and
\* Package.
C14_ExactlyOneRef ==
  /\ []ExactlyOneRef
  /\ [][\A c \in {"c1"} :
          (Starts(c, "addItemToCart")
             /\ (req'[c].productId = Null) = (req'[c].packageId = Null))
            => /\ req'[c].pc = "done"
               /\ req'[c].status = 400
               /\ UNCHANGED store]_vars

\* An add-line carrying both product A and package B was refused while the
\* session's cart already held a line.
C14_Witness ==
  /\ Done("c1", "addItemToCart")
  /\ req["c1"].status = 400
  /\ req["c1"].productId = "A"
  /\ req["c1"].packageId = "B"
  /\ \E k \in req["c1"].cart : \E i \in cartItem : i.cartId = k.id

\* C15: every CartLine has a positive quantity in every reachable state, and
\* add-item with a quantity that is zero or negative is refused with 400.
C15_PositiveQuantity ==
  /\ \A i \in cartItem : i.quantity > 0
  /\ \A c \in Clients :
       (Done(c, "addItemToCart") /\ \E q \in req[c].quantity : q <= 0)
         => req[c].status = 400

\* The request that starts in this step is a removal of a line: remove-item,
\* or update-item with quantity 0.
StartsRemoval(c, op) ==
  /\ Starts(c, op)
  /\ op = "updateCartItem" => req'[c].quantity = {0}

\* What a removal does, step by step, to the store and to the request: the
\* line is looked up in the session's cart (404 and no write if it is not
\* there), then exactly that line is deleted and 200 is answered.
RemovalEffect(c, op) ==
  /\ StartsRemoval(c, op)
       => /\ UNCHANGED store
          /\ IF OwnedItem(req'[c].sessionId, req'[c].id) = {}
             THEN req'[c].pc = "done" /\ req'[c].status = 404
             ELSE req'[c].pc = "delete"
  /\ At(c, op, "delete")
       => /\ req'[c].pc = "done"
          /\ req'[c].status = 200
          /\ cartItem' = {i \in cartItem : i.id # req[c].id}
          /\ UNCHANGED <<catalog, cart, orders, cuid>>
  /\ (Done(c, op) /\ req[c].status = 200
        /\ (req[c].op = "updateCartItem" => req[c].quantity = {0})
        /\ Starts(c, "getOrCreateCart") /\ req'[c].sessionId = req[c].sessionId)
       => ~(\E i \in req'[c].items : i.id = req[c].id)

\* C16: update-item(sessionId, lineId, 0) is equivalent to
\* remove-item(sessionId, lineId): from one start state both take the same
\* steps and end in the same store, in which the line is absent from the next
\* get-or-create-cart result and every other line and cart is unchanged.
C16_UpdateZeroIsRemove ==
  [][\A c \in {"c1"} :
       /\ RemovalEffect(c, "updateCartItem")
       /\ RemovalEffect(c, "removeItemFromCart")]_vars

\* update-item with quantity 0 has removed one of two lines of a cart.
C16_Witness ==
  /\ Done("c1", "updateCartItem")
  /\ req["c1"].status = 200
  /\ req["c1"].quantity = {0}
  /\ ~(\E i \in cartItem : i.id = req["c1"].id)
  /\ \E k \in req["c1"].cart : \E i \in cartItem : i.cartId = k.id

\* The line named by the request that starts in this step is in the cart of
\* another session.
ForeignLine(c) ==
  \E i \in cartItem, k \in cart :
    /\ i.id = req'[c].id
    /\ k.id = i.cartId
    /\ k.sessionId # req'[c].sessionId

\* The quantity check of update-item, which comes before the lookup, passes.
QuantityAccepted(c) == \A q \in req'[c].quantity : q >= 0

\* C17: update-line and remove-line called with the id of a line that belongs
\* to another session's cart answer 404, the answer given for an id no line
\* has, and write nothing (update-line's refusal of a negative quantity comes
\* first and is the same for an own, a foreign and a missing line).
C17_OwnershipCheck ==
  [][\A c \in {"c1"} :
       /\ ( /\ Starts(c, "updateCartItem") \/ Starts(c, "removeItemFromCart")
            /\ ForeignLine(c) \/ ~(\E i \in cartItem : i.id = req'[c].id) )
            => /\ req'[c].pc = "done"
               /\ req'[c].status = IF QuantityAccepted(c) THEN 404 ELSE 400
               /\ req'[c].items = {}
               /\ req'[c].error = Null
               /\ UNCHANGED store
       /\ ( /\ Starts(c, "updateCartItem") \/ Starts(c, "removeItemFromCart")
            /\ ForeignLine(c)
            /\ QuantityAccepted(c) )
            => /\ req'[c].status = 404
               /\ req'[c].cart = CartBySession(req'[c].sessionId)]_vars

\* update-item with a positive quantity, sent by a session that has a cart for
\* a line of another session's cart, was answered 404 and the line is as it was.
C17_Witness ==
  /\ Done("c1", "updateCartItem")
  /\ req["c1"].status = 404
  /\ req["c1"].quantity = {3}
  /\ req["c1"].cart # {}
  /\ req["c1"].cart \subseteq cart
  /\ \E i \in cartItem :
       /\ i.id = req["c1"].id
       /\ i.quantity = 1
       /\ \A k \in req["c1"].cart : i.cartId # k.id

\* C18: update-line for a line of the session's cart with a quantity that is
\* negative or missing is refused with a validation error (400) and leaves
\* the line unchanged, and with a positive quantity q it sets the line's
\* quantity to exactly q.
C18_UpdateQuantityValidated ==
  [][\A c \in {"c1"} :
       /\ (Starts(c, "updateCartItem")
             /\ OwnedItem(req'[c].sessionId, req'[c].id) # {}
             /\ (req'[c].quantity = {} \/ \E q \in req'[c].quantity : q < 0))
            => /\ req'[c].pc = "done"
               /\ req'[c].status = 400
               /\ UNCHANGED store
       /\ (At(c, "updateCartItem", "update") /\ \E q \in req[c].quantity : q > 0)
            => /\ req'[c].status = 200
               /\ cartItem' = {IF i.id = req[c].id
                               THEN [i EXCEPT !.quantity = CHOOSE q \in req[c].quantity : TRUE]
                               ELSE i : i \in cartItem}
               /\ UNCHANGED <<catalog, cart, orders, cuid>>]_vars

\* C19: clear deletes every CartLine of the session's cart and keeps the Cart
\* row (and every other cart's lines): the next get-or-create-cart of the
\* session returns that same cart with zero lines, and the next add-line adds
\* to that same cart.
C19_ClearKeepsCart ==
  [][\A c \in {"c1"} :
       /\ At(c, "clearCart", "deleteMany")
            => /\ req'[c].pc = "done"
               /\ req'[c].status = 200
               /\ cart' = cart
               /\ cartItem' = {i \in cartItem : \A k \in req[c].cart : i.cartId # k.id}
               /\ UNCHANGED <<catalog, orders, cuid>>
       /\ (Done(c, "clearCart") /\ req[c].status = 200
             /\ Starts(c, "getOrCreateCart") /\ req'[c].sessionId = req[c].sessionId)
            => /\ req'[c].pc = "done"
               /\ req'[c].status = 200
               /\ req'[c].cart = req[c].cart
               /\ req'[c].items = {}
               /\ UNCHANGED store
       /\ (Done(c, "clearCart") /\ req[c].status = 200
             /\ Starts(c, "addItemToCart") /\ req'[c].sessionId = req[c].sessionId
             /\ (req'[c].productId = Null) # (req'[c].packageId = Null))
            => /\ req'[c].pc = "findItem"
               /\ req'[c].cart = req[c].cart
               /\ UNCHANGED store]_vars

\* The second request of the behaviour was a clear: it has emptied the cart
\* that the first request, an add-line, created, and the cart row is there.
C19_Witness ==
  /\ Done("c1", "clearCart")
  /\ req["c1"].status = 200
  /\ budget = MaxRequests - 2
  /\ cuid = 2
  /\ req["c1"].cart # {}
  /\ req["c1"].cart = cart
  /\ cartItem = {}

\* C20: clear-cart has no failure outcome: for every valid sessionId, a
\* session that has no cart included, it answers with an acknowledgement.
C20_ClearNeverFails ==
  \A c \in Clients : Done(c, "clearCart") => req[c].status = 200

\* C20 as amended: clear-cart acknowledges (200) for a session that has a
\* cart, and answers NotFound (404), writing nothing, for a session that has
\* none.
C20_ClearAckOrNotFound ==
  [][\A c \in {"c1"} :
       /\ Starts(c, "clearCart")
            => /\ UNCHANGED store
               /\ IF CartBySession(req'[c].sessionId) = {}
                  THEN req'[c].pc = "done" /\ req'[c].status = 404
                  ELSE req'[c].pc = "deleteMany"
       /\ At(c, "clearCart", "deleteMany") => req'[c].status = 200]_vars

\* clear-cart was answered 404 for a session whose cart place-order had destroyed.
C20_Witness ==
  /\ Done("c1", "clearCart")
  /\ req["c1"].status = 404
  /\ CartBySession(req["c1"].sessionId) = {}
  /\ \E o \in order : o.sessionId = req["c1"].sessionId

\* C22: summarize mutates nothing: it creates no Cart and changes no line,
\* and for a session that has no cart it answers 200 with
\* {totalItems: 0, totalPrice: 0, itemCount: 0}, never with an error.
C22_SummaryReadOnly ==
  [][\A c \in {"c1"} :
       Starts(c, "getCartSummary")
         => /\ UNCHANGED store
            /\ req'[c].pc = "done"
            /\ (CartBySession(req'[c].sessionId) = {}
                  => /\ req'[c].status = 200
                     /\ req'[c].summary =
                          {[totalItems |-> 0, totalPrice |-> Zero, itemCount |-> 0]})]_vars

\* A summary was answered with zeroed totals for a session that has no cart,
\* and there is still no cart for it.
C22_Witness ==
  /\ Done("c1", "getCartSummary")
  /\ req["c1"].status = 200
  /\ req["c1"].summary = {[totalItems |-> 0, totalPrice |-> Zero, itemCount |-> 0]}
  /\ CartBySession(req["c1"].sessionId) = {}
  /\ cart # {}

\* The exact sum, in cents, of unit price times quantity over the lines.
RECURSIVE ExactCents(_)
ExactCents(items) ==
  IF items = {} THEN <<>>
  ELSE LET i == CHOOSE i \in items : TRUE
       IN BigAdd(BigMul(FromInt(UnitPrice(i)), FromInt(i.quantity)),
                 ExactCents(items \ {i}))

\* C21: summarize returns totalItems = the sum of the quantities of the
\* cart's lines, itemCount = the number of lines, and totalPrice = the sum
\* over the lines of the live price of the line's product (else package)
\* times its quantity.
C21_SummaryTotals ==
  \A c \in {"c1"} :
    (Done(c, "getCartSummary") /\ req[c].status = 200 /\ req[c].cart # {})
      => LET items == UNION {ItemsOfCart(k.id) : k \in req[c].cart}
         IN req[c].summary =
              {[totalItems |-> TotalItems(items),
                totalPrice |-> DecimalToNumber(ExactCents(items)),
                itemCount |-> Cardinality(items)]}

\* C23: money is computed in fixed-point decimals throughout: the totalPrice
\* of a cart summary is the exact whole-cent sum of unit price times quantity,
\* every OrderLine subtotal is its price times its quantity and every Order
\* total is the sum of its subtotals.
C23_ExactMoney ==
  /\ \A c \in {"c1"} :
       (Done(c, "getCartSummary") /\ req[c].status = 200)
         => \A t \in req[c].summary :
              t.totalPrice = DecimalToNumber(ExactCents(req[c].items))
  /\ \A i \in orderItem : i.subtotal = i.price * i.quantity
  /\ \A o \in order :
       o.total = SumOfSubtotals({i \in orderItem : i.orderId = o.id})

\* C24: there is at most one Cart per session identifier, and
\* get-or-create-cart never fails: two first accesses of a new session that
\* overlap are both answered 200.
C24_OneCartNeverFails ==
  /\ \A a \in cart, b \in cart : a.sessionId = b.sessionId => a = b
  /\ \A c \in Clients :
       Done(c, "getOrCreateCart") => req[c].status = 200

\* C25: get-orders-by-session answers 200 with every Order placed under the
\* session and no other, newest first, for every session identifier that the
\* cart operations and create-order accept.
C25_OrdersOfAcceptedSession ==
  \A c \in {"c1"} :
    (/\ Done(c, "getOrdersBySessionId")
     /\ ValidateSessionId(req[c].sessionId)
     /\ \E o \in order : o.sessionId = req[c].sessionId)
      => /\ req[c].status = 200
         /\ req[c].orders \in NewestFirst({o \in order : o.sessionId = req[c].sessionId})

\* The unit price an order line's product or package has in a catalog h.
PriceIn(h, line) ==
  LET prod == {p \in h[1] : p.id = line.productId}
      pack == {p \in h[2] : p.id = line.packageId}
  IN IF prod # {} THEN (CHOOSE p \in prod : TRUE).price
     ELSE IF pack # {} THEN (CHOOSE p \in pack : TRUE).price
     ELSE 0

\* C26: the unit prices of one place-order are read from a single catalog
\* state: the prices of an Order's lines are the prices of one of the
\* catalogs there have been, also when price updates run during the
\* checkout, and Order.total is the sum of the stored subtotals.  (A line
\* whose product or package was deleted since names none and is passed over.)
C26_ConsistentPrices ==
  \A o \in order :
    LET lines == {i \in orderItem : i.orderId = o.id}
    IN /\ \E h \in history :
            \A i \in lines :
              (i.productId # Null \/ i.packageId # Null) => i.price = PriceIn(h, i)
       /\ o.total = SumOfSubtotals(lines)

\* C27: two place-order requests of one session that overlap never both
\* make an Order from the same cart lines: a CartLine is copied into at most
\* one Order.
C27_OneOrderPerCart ==
  \A a \in Clients, b \in Clients :
    (/\ a # b
     /\ req[a].op = "createOrder"
     /\ req[b].op = "createOrder"
     /\ \E i \in req[a].items, j \in req[b].items : i.id = j.id)
      => ~(\E x \in order, y \in order : x.id \in req[a].order /\ y.id \in req[b].order)

\* C28: no cart line is lost by checkout: every CartLine that a place-order
\* deletes is among the lines it read and copied into its Order, with the
\* quantity it has when it is deleted.
C28_NoLineLost ==
  [][\A c \in Clients :
       (/\ req[c].op = "createOrder"
        /\ req[c].pc \in {"deleteItems", "deleteCart"}
        /\ req'[c] # req[c])
         => \A i \in cartItem \ cartItem' :
              \E j \in req[c].items : j.id = i.id /\ j.quantity = i.quantity]_vars

\* C29: every Order has at least one OrderLine and every OrderLine belongs
\* to an Order that exists.
C29_OrdersHaveLines ==
  /\ \A o \in order : \E i \in orderItem : i.orderId = o.id
  /\ \A i \in orderItem : \E o \in order : o.id = i.orderId

\* A delete-order of a placed order was answered: the order and its line are
\* still there.
C29_Witness ==
  /\ Done("c1", "deleteOrder")
  /\ req["c1"].status # 404
  /\ \E o \in order : o.id = req["c1"].id /\ \E i \in orderItem : i.orderId = o.id

\* The operations that the claim on session isolation names.
SessionOps ==
  {"addItemToCart", "updateCartItem", "removeItemFromCart", "clearCart",
   "getCartSummary", "createOrder"}

\* The carts of the sessions other than s, and the lines of those carts.
OtherCarts(rows, s) == {k \in rows : k.sessionId # s}

OtherLines(rows, lines, s) ==
  {i \in lines : \E k \in OtherCarts(rows, s) : k.id = i.cartId}

\* C30: a step of add-line, update-line, remove-line, clear, summarize or
\* place-order for session A creates, changes and deletes no Cart and no
\* CartLine of another session, whatever line id and arguments it is given.
C30_SessionIsolation ==
  [][\A c \in {"c1"} :
       (req'[c] # req[c] /\ req'[c].op \in SessionOps)
         => /\ OtherCarts(cart', req'[c].sessionId) = OtherCarts(cart, req'[c].sessionId)
            /\ OtherLines(cart', cartItem', req'[c].sessionId)
                 = OtherLines(cart, cartItem, req'[c].sessionId)]_vars

\* A place-order of one session was answered 201 and took that session's
\* cart away, while the cart of another session still has its line.
C30_Witness ==
  /\ Done("c1", "createOrder")
  /\ req["c1"].status = 201
  /\ CartBySession(req["c1"].sessionId) = {}
  /\ OtherLines(cart, cartItem, req["c1"].sessionId) # {}

====
